---------------------------- MODULE Spec2Model ----------------------------
(***************************************************************************)
(* A model of the peer-networking core of the beacon node:                 *)
(*                                                                         *)
(*   - Behaviour (beacon_node/eth2-libp2p/src/behaviour.rs): the event     *)
(*     queue drained by poll and the LRU cache of seen gossip messages;    *)
(*   - MessageProcessor and NetworkContext                                 *)
(*     (beacon_node/network/src/sync/simple_sync.rs): the Hello handshake  *)
(*     and the messages the handlers put on the network and sync channels. *)
(*                                                                         *)
(* Specifications:                                                         *)
(*   Spec          the Behaviour under every interleaving of injected      *)
(*                 events and polls, over a small universe of inputs;      *)
(*   SpecLru       the Behaviour under long runs of gossip injections that *)
(*                 fill the 256-entry seen cache and force evictions;      *)
(*   SpecRefresh   the Behaviour with a message delivered again each time  *)
(*                 it is about to leave the full seen cache;               *)
(*   SpecFair      the Behaviour with events injected for ever, under      *)
(*                 fair polling;                                           *)
(*   SpecIdentify  the Behaviour's identify events between gossip and      *)
(*                 polls;                                                  *)
(*   SpecProcessor the MessageProcessor's handlers over a set of chains;   *)
(*   SpecBlocks    the two handlers that serve blocks, over chains with    *)
(*                 skipped slots and blocks missing from the store;        *)
(*   SpecOverflow  on_beacon_blocks_request over the whole range of slots  *)
(*                 and counts;                                             *)
(*   SpecChannels  handlers whose sends fail because a receiver is gone;   *)
(*   SpecForward   should_forward_block and should_forward_attestation,    *)
(*                 under every answer of the store and the state           *)
(*                 transition;                                             *)
(*   SpecRace      should_forward_block while the sync task replaces the   *)
(*                 head of the chain;                                      *)
(*   SpecSignature the methods of the generic Signature wrapper            *)
(*                 (eth2/utils/lighthouse_bls/src/signature.rs), one call  *)
(*                 frame at a time.                                        *)
(***************************************************************************)
EXTENDS Integers, Sequences, FiniteSets, TLC

(***************************************************************************)
(* Program constants.                                                      *)
(***************************************************************************)
\* behaviour.rs:71  seen_gossip_messages: LruCache::new(256)
SEEN_CACHE_CAPACITY == 256
\* behaviour.rs:21  const MAX_IDENTIFY_ADDRESSES: usize = 20
MAX_IDENTIFY_ADDRESSES == 20

(***************************************************************************)
(* Bounds of the model.                                                    *)
(***************************************************************************)
\* Spec: events the behaviour enqueues, and gossip messages it is handed, in
\* one run (the queue is unbounded).
MaxEvents == 2
\* SpecLru: distinct gossip messages injected in one run.
MaxFresh == 258
\* SpecLru: re-injections of an earlier message in one run.
MaxReinjections == 1
\* SpecLru: events waiting in the queue (the host polls while gossip arrives).
MaxQueue == 1

Peers == {"p1", "p2"}
MessageIds == {"id1", "id2"}

(***************************************************************************)
(* State of the Behaviour.                                                 *)
(***************************************************************************)
VARIABLES
    \* Behaviour.events: Vec<BehaviourEvent>, index 1 is the oldest.
    events,
    \* Behaviour.seen_gossip_messages: the keys of the LruCache, most
    \* recently used first.
    seen_gossip_messages,
    \* The behaviour operation that ran last, with its arguments and, for
    \* poll, its return value.
    bcall,
    \* History: every event pushed on `events`, in order.
    enqueued_log,
    \* History: every event a poll returned, in order.
    polled_log,
    \* History: per key now in the cache, the number of GossipMessage events
    \* enqueued for it since it entered the cache.
    deliveries,
    \* History: the key of every put on the seen cache, in order.
    put_log,
    \* History: the number of puts whose key was not in the cache.
    absent_puts,
    \* History: for every put that removed keys from the cache, the set of
    \* keys it removed, in order.
    evicted_log

bvars == <<events, seen_gossip_messages, bcall, enqueued_log, polled_log,
           deliveries, put_log, absent_puts, evicted_log>>

(***************************************************************************)
(* lru::LruCache, as used by the Behaviour: new(cap), put(k, ()).          *)
(***************************************************************************)
LruNew == << >>

LruKeys(cache) == {cache[i] : i \in 1..Len(cache)}

LruContains(cache, k) == \E i \in 1..Len(cache) : cache[i] = k

\* Faults of put, against which the properties of the cache are tested:
\* the old value is never reported;
LruPutNeverReportsOld(cache, k) ==
    IF LruContains(cache, k)
    THEN [cache |-> <<k>> \o SelectSeq(cache, LAMBDA e : e # k), old |-> "None"]
    ELSE IF Len(cache) >= SEEN_CACHE_CAPACITY
         THEN [cache |-> <<k>> \o SubSeq(cache, 1, SEEN_CACHE_CAPACITY - 1),
               old |-> "None"]
         ELSE [cache |-> <<k>> \o cache, old |-> "None"]

\* nothing is dropped when the cache is at capacity;
LruPutUnbounded(cache, k) ==
    IF LruContains(cache, k)
    THEN [cache |-> <<k>> \o SelectSeq(cache, LAMBDA e : e # k), old |-> "Some"]
    ELSE [cache |-> <<k>> \o cache, old |-> "None"]

\* an existing key is not refreshed (first in, first out).
LruPutNoRefresh(cache, k) ==
    IF LruContains(cache, k)
    THEN [cache |-> cache, old |-> "Some"]
    ELSE IF Len(cache) >= SEEN_CACHE_CAPACITY
         THEN [cache |-> <<k>> \o SubSeq(cache, 1, SEEN_CACHE_CAPACITY - 1),
               old |-> "None"]
         ELSE [cache |-> <<k>> \o cache, old |-> "None"]

\* put(k, v): an existing key is refreshed (moved to the front) and the old
\* value returned; a new key is pushed at the front, after dropping the
\* least recently used entry (the back) when the cache is at capacity.
LruPut(cache, k) ==
    IF LruContains(cache, k)
    THEN [cache |-> <<k>> \o SelectSeq(cache, LAMBDA e : e # k), old |-> "Some"]
    ELSE IF Len(cache) >= SEEN_CACHE_CAPACITY
         THEN [cache |-> <<k>> \o SubSeq(cache, 1, SEEN_CACHE_CAPACITY - 1),
               old |-> "None"]
         ELSE [cache |-> <<k>> \o cache, old |-> "None"]

(***************************************************************************)
(* Gossip messages and the pubsub codec.                                   *)
(***************************************************************************)
GossipsubMessage(data, topics) == [data |-> data, topics |-> topics]

\* PubsubMessage::decode(topics, data): the codec is outside the core; it
\* either yields a message or an error, as a function of its arguments.
\* Here the even payloads are the ones it rejects.
PubsubDecode(topics, data) ==
    IF data % 2 = 0
    THEN [ok |-> FALSE]
    ELSE [ok |-> TRUE, msg |-> [payload |-> data, topics |-> topics]]

(***************************************************************************)
(* BehaviourEvent.                                                         *)
(***************************************************************************)
GossipMessageEvent(id, source, topics, message) ==
    [type |-> "GossipMessage", id |-> id, source |-> source,
     topics |-> topics, message |-> message]

PeerSubscribedEvent(peer, topic) ==
    [type |-> "PeerSubscribed", peer |-> peer, topic |-> topic]

PeerDialedEvent(peer) == [type |-> "PeerDialed", peer |-> peer]

PeerDisconnectedEvent(peer) == [type |-> "PeerDisconnected", peer |-> peer]

RPCEventOf(peer, rpc_event) ==
    [type |-> "RPC", peer |-> peer, rpc_event |-> rpc_event]

(***************************************************************************)
(* Behaviour::new                                                          *)
(***************************************************************************)
BehaviourInit ==
    /\ events = << >>
    /\ seen_gossip_messages = LruNew
    /\ bcall = [op |-> "new"]
    /\ enqueued_log = << >>
    /\ polled_log = << >>
    /\ deliveries = << >>
    /\ put_log = << >>
    /\ absent_puts = 0
    /\ evicted_log = << >>

\* The history variables a step that leaves the seen cache alone keeps.
CacheHistoryUnchanged ==
    UNCHANGED <<deliveries, put_log, absent_puts, evicted_log>>

\* self.events.push(ev), with its history.
PushEvent(ev) ==
    /\ events' = Append(events, ev)
    /\ enqueued_log' = Append(enqueued_log, ev)


(***************************************************************************)
(* inject_event(GossipsubEvent)                                            *)
(***************************************************************************)
\* History of a put of gs_msg that left the cache as `cache_after`; the
\* events enqueued for it are read off the queue.
PutHistory(gs_msg, cache_after) ==
    LET before == LruKeys(seen_gossip_messages)
        after == LruKeys(cache_after)
        gone == before \ after
        n == Len(events') - Len(events)
    IN  /\ put_log' = Append(put_log, gs_msg)
        /\ absent_puts' = IF gs_msg \in before THEN absent_puts ELSE absent_puts + 1
        /\ evicted_log' = IF gone = {} THEN evicted_log ELSE Append(evicted_log, gone)
        /\ deliveries' =
              IF gs_msg \in DOMAIN deliveries /\ gone = {}
              THEN [deliveries EXCEPT ![gs_msg] = @ + n]
              ELSE [k \in after |->
                      (IF k \in DOMAIN deliveries THEN deliveries[k] ELSE 0)
                      + (IF k = gs_msg THEN n ELSE 0)]

\* GossipsubEvent::Message(propagation_source, id, gs_msg)
InjectGossipsubMessage(propagation_source, id, gs_msg) ==
    LET put == LruPut(seen_gossip_messages, gs_msg)
        decoded == PubsubDecode(gs_msg.topics, gs_msg.data)
        notify == put.old = "None" /\ decoded.ok
    IN  /\ seen_gossip_messages' = put.cache
        /\ IF notify
           THEN PushEvent(GossipMessageEvent(id, propagation_source,
                                             gs_msg.topics, decoded.msg))
           ELSE UNCHANGED <<events, enqueued_log>>
        /\ bcall' = [op |-> "gossipsub_message", source |-> propagation_source,
                     id |-> id, gs_msg |-> gs_msg]
        /\ PutHistory(gs_msg, put.cache)
        /\ UNCHANGED polled_log

\* GossipsubEvent::Subscribed { peer_id, topic }
InjectGossipsubSubscribed(peer_id, topic) ==
    /\ PushEvent(PeerSubscribedEvent(peer_id, topic))
    /\ bcall' = [op |-> "gossipsub_subscribed", peer |-> peer_id, topic |-> topic]
    /\ UNCHANGED <<seen_gossip_messages, polled_log>>
    /\ CacheHistoryUnchanged

\* GossipsubEvent::Unsubscribed { .. }
InjectGossipsubUnsubscribed(peer_id, topic) ==
    /\ bcall' = [op |-> "gossipsub_unsubscribed", peer |-> peer_id, topic |-> topic]
    /\ UNCHANGED <<events, enqueued_log, seen_gossip_messages, polled_log>>
    /\ CacheHistoryUnchanged

(***************************************************************************)
(* inject_event(RPCMessage)                                                *)
(***************************************************************************)
InjectPeerDialed(peer_id) ==
    /\ PushEvent(PeerDialedEvent(peer_id))
    /\ bcall' = [op |-> "rpc_peer_dialed", peer |-> peer_id]
    /\ UNCHANGED <<seen_gossip_messages, polled_log>>
    /\ CacheHistoryUnchanged

InjectPeerDisconnected(peer_id) ==
    /\ PushEvent(PeerDisconnectedEvent(peer_id))
    /\ bcall' = [op |-> "rpc_peer_disconnected", peer |-> peer_id]
    /\ UNCHANGED <<seen_gossip_messages, polled_log>>
    /\ CacheHistoryUnchanged

InjectRPC(peer_id, rpc_event) ==
    /\ PushEvent(RPCEventOf(peer_id, rpc_event))
    /\ bcall' = [op |-> "rpc_rpc", peer |-> peer_id, rpc_event |-> rpc_event]
    /\ UNCHANGED <<seen_gossip_messages, polled_log>>
    /\ CacheHistoryUnchanged

(***************************************************************************)
(* inject_event(Discv5Event)                                               *)
(***************************************************************************)
InjectDiscv5 ==
    /\ bcall' = [op |-> "discv5"]
    /\ UNCHANGED <<events, enqueued_log, seen_gossip_messages, polled_log>>
    /\ CacheHistoryUnchanged

(***************************************************************************)
(* inject_event(IdentifyEvent)                                             *)
(***************************************************************************)
\* A fault of the truncation: the last `len` elements are kept.
TruncateKeepsLast(v, len) ==
    IF Len(v) > len THEN SubSeq(v, Len(v) - len + 1, Len(v)) ELSE v

\* Vec::truncate(len): the first `len` elements; no effect on a shorter
\* vector.
Truncate(v, len) == IF len < Len(v) THEN SubSeq(v, 1, len) ELSE v

\* IdentifyEvent::Received { peer_id, info, observed_addr }: the addresses
\* are cut to MAX_IDENTIFY_ADDRESSES and logged.
InjectIdentifyReceived(peer_id, listen_addrs) ==
    /\ bcall' = [op |-> "identify_received", peer |-> peer_id,
                 received |-> listen_addrs,
                 listen_addrs |->
                    IF Len(listen_addrs) > MAX_IDENTIFY_ADDRESSES
                    THEN Truncate(listen_addrs, MAX_IDENTIFY_ADDRESSES)
                    ELSE listen_addrs]
    /\ UNCHANGED <<events, enqueued_log, seen_gossip_messages, polled_log>>
    /\ CacheHistoryUnchanged

\* IdentifyEvent::Sent { .. } and IdentifyEvent::Error { .. }
InjectIdentifyOther(kind) ==
    /\ bcall' = [op |-> kind]
    /\ UNCHANGED <<events, enqueued_log, seen_gossip_messages, polled_log>>
    /\ CacheHistoryUnchanged

(***************************************************************************)
(* Behaviour::propagate_message                                            *)
(***************************************************************************)
\* A fault of propagate_message: the host is told of the propagation.
PropagateMessageNotifies(propagation_source, message_id) ==
    /\ PushEvent(GossipMessageEvent(message_id, propagation_source,
                                    <<"beacon_block">>, 1))
    /\ bcall' = [op |-> "propagate_message", source |-> propagation_source,
                 id |-> message_id]
    /\ UNCHANGED <<seen_gossip_messages, polled_log>>
    /\ CacheHistoryUnchanged

\* propagate_message(propagation_source, message_id): the call is handed to
\* gossipsub, which forwards what its own cache holds under the id; nothing
\* of the Behaviour is touched.
PropagateMessage(propagation_source, message_id) ==
    /\ bcall' = [op |-> "propagate_message", source |-> propagation_source,
                 id |-> message_id]
    /\ UNCHANGED <<events, enqueued_log, seen_gossip_messages, polled_log>>
    /\ CacheHistoryUnchanged

(***************************************************************************)
(* Behaviour::poll                                                         *)
(***************************************************************************)
\* A fault of poll: Vec::pop, the last element.
EventsPop(evs) == [item |-> evs[Len(evs)], rest |-> SubSeq(evs, 1, Len(evs) - 1)]

\* Vec::remove(0): the first element, and the rest shifted down.
EventsRemove0(evs) == [item |-> Head(evs), rest |-> Tail(evs)]

Poll ==
    /\ IF events # << >>
       THEN LET r == EventsRemove0(events)
            IN  /\ events' = r.rest
                /\ bcall' = [op |-> "poll", result |-> "Ready", event |-> r.item]
                /\ polled_log' = Append(polled_log, r.item)
       ELSE /\ bcall' = [op |-> "poll", result |-> "NotReady"]
            /\ UNCHANGED <<events, polled_log>>
    /\ UNCHANGED <<enqueued_log, seen_gossip_messages>>
    /\ CacheHistoryUnchanged


(***************************************************************************)
(*                 MessageProcessor and NetworkContext                     *)
(***************************************************************************)

\* Bounds of SpecProcessor.
\* Epochs of the local chain are 0..MaxEpoch; a remote may be one ahead.
MaxEpoch == 1
\* T::EthSpec::slots_per_epoch() of the modelled chain.
SlotsPerEpoch == 2
\* Handler calls in one run (the channels are unbounded).
MaxCalls == 1
\* The bits of a slot or a count: u64 scaled down, wide enough for every
\* slot of the modelled chains.
SlotBits == 4
\* Call frames the stack of a thread holds before it overflows.
MaxStack == 4

RequestIds == {7}
LocalForkVersion == <<0, 0, 0, 0>>
ForkVersions == {LocalForkVersion, <<0, 0, 0, 1>>}

\* Hash256 values are pairs <<kind, number>>.
\* Hash256::zero()
ZeroHash == <<"zero", 0>>
\* A root the local chain and store do not hold.
ForeignRoot == <<"foreign", 0>>

\* Option<T>
Some(x) == <<"Some", x>>
None == <<"None">>

VARIABLES
    \* MessageProcessor.chain: what the handlers read of the BeaconChain:
    \*   head         beacon_block_root and beacon_state of chain.head()
    \*   block_roots  slot -> block root, for the slots root_at_slot answers
    \*   blocks       the BeaconBlocks the store holds, by root
    chain,
    \* The network channel (NetworkContext.network_send): the messages sent
    \* and not yet received by the network service, oldest first.
    network_send,
    \* The sync channel (MessageProcessor.sync_send), likewise.
    sync_send,
    \* Whether the receiving half of each channel still exists; try_send
    \* fails once it is gone.
    network_rx_alive,
    sync_rx_alive,
    \* The processor operation that ran last, with its arguments.
    pcall,
    \* History: the number of handler calls so far.
    calls

pvars == <<chain, network_send, sync_send, network_rx_alive, sync_rx_alive,
           pcall, calls>>

vars == <<bvars, pvars>>

(***************************************************************************)
(* The chain, as the handlers see it.                                      *)
(***************************************************************************)
\* Epoch::start_slot(slots_per_epoch)
StartSlot(epoch) == epoch * SlotsPerEpoch

\* The block root of the local canonical chain at a slot.
CanonicalRoot(slot) == <<"root", slot>>

\* The head of every modelled chain is one slot into epoch MaxEpoch + 1.
HeadSlot == StartSlot(MaxEpoch + 1) + 1

\* The root of the state after the block at a slot.
StateRoot(slot) == <<"state", slot>>

\* The public keys of the validator registry, by validator index, of the
\* state at a slot: the registry changes after epoch 0.
ValidatorsAt(slot) ==
    IF slot < StartSlot(1) THEN <<"pk0", "pk1">> ELSE <<"pk0", "pk2">>

\* The BeaconState the store keeps under StateRoot(slot) (its fields that
\* the forwarding checks read).
StateAt(slot) == [slot |-> slot, validators |-> ValidatorsAt(slot)]

\* The BeaconBlock of the local canonical chain at a slot (its fields that
\* the handlers read).
CanonicalBlock(slot) ==
    [slot |-> slot,
     parent_root |-> IF slot = 0 THEN ZeroHash ELSE CanonicalRoot(slot - 1),
     state_root |-> StateRoot(slot)]

\* The slot of the latest block at or before a slot, on a chain with no block
\* at the slots in `skipped` (slot 0 always has one).
BlockSlotAt(skipped, slot) ==
    CHOOSE t \in 0..slot : t \notin skipped /\ \A u \in (t + 1)..slot : u \in skipped

\* The BeaconBlock at a slot of the chain with no block at the slots in
\* `skipped`: its parent is the latest block before it.
ChainBlock(skipped, slot) ==
    [slot |-> slot,
     parent_root |-> IF slot = 0 THEN ZeroHash
                     ELSE CanonicalRoot(BlockSlotAt(skipped, slot - 1)),
     state_root |-> StateRoot(slot)]

\* A chain finalized at `finalized_epoch` whose block-root iteration answers
\* for the slots first_slot..HeadSlot, whose store fails to produce the
\* blocks of the roots in `missing`, and which has no block at the slots in
\* `skipped`: there the block root of the latest earlier block is repeated.
\* At genesis the finalized checkpoint is (epoch 0, zero root).
MakeChain(finalized_epoch, first_slot, missing, skipped) ==
    [head |->
        [beacon_block_root |-> CanonicalRoot(HeadSlot),
         beacon_state_root |-> StateRoot(HeadSlot),
         beacon_state |->
            [fork |-> [current_version |-> LocalForkVersion],
             finalized_checkpoint |->
                [root |-> IF finalized_epoch = 0 THEN ZeroHash
                          ELSE CanonicalRoot(StartSlot(finalized_epoch)),
                 epoch |-> finalized_epoch],
             slot |-> HeadSlot,
             validators |-> ValidatorsAt(HeadSlot)]],
     block_roots |-> [s \in first_slot..HeadSlot |->
                         CanonicalRoot(BlockSlotAt(skipped, s))],
     blocks |-> [r \in {CanonicalRoot(s) : s \in (0..HeadSlot) \ skipped} \ missing
                     |-> ChainBlock(skipped, r[2])],
     states |-> [r \in {StateRoot(s) : s \in (0..HeadSlot) \ skipped}
                     |-> StateAt(r[2])]]

\* The chains: finalized at any epoch; the block roots known from genesis
\* or only from the finalized epoch on; the store holding every block of the
\* chain or all but the head block.
Chains ==
    {MakeChain(e, f, m, {}) : e \in 0..MaxEpoch, f \in {0},
                              m \in {{}, {CanonicalRoot(HeadSlot)}}}
    \cup {MakeChain(e, StartSlot(e), m, {}) : e \in 1..MaxEpoch,
                                             m \in {{}, {CanonicalRoot(HeadSlot)}}}

\* BeaconChain::root_at_slot(slot) -> Option<Hash256>
RootAtSlot(c, slot) ==
    IF slot \in DOMAIN c.block_roots THEN Some(c.block_roots[slot]) ELSE None

\* chain.store.exists::<BeaconBlock>(root).unwrap_or_else(|_| false)
StoreBlockExists(c, root) == root \in DOMAIN c.blocks

\* chain.store.get::<BeaconBlock>(root), as matched by `if let Ok(Some(block))`:
\* a store error counts as no block.
StoreGetBlock(c, root) ==
    IF root \in DOMAIN c.blocks THEN Some(c.blocks[root]) ELSE None

\* BeaconChain::rev_iter_block_roots(): the (root, slot) pairs from the head
\* slot downwards.
RECURSIVE RevIterFrom(_, _)
RevIterFrom(c, slot) ==
    IF slot \notin DOMAIN c.block_roots THEN << >>
    ELSE <<[root |-> c.block_roots[slot], slot |-> slot]>> \o RevIterFrom(c, slot - 1)

RevIterBlockRoots(c) == RevIterFrom(c, c.head.beacon_state.slot)

\* hello_message(beacon_chain)
HelloMessageOf(c) ==
    [fork_version |-> c.head.beacon_state.fork.current_version,
     finalized_root |-> c.head.beacon_state.finalized_checkpoint.root,
     finalized_epoch |-> c.head.beacon_state.finalized_checkpoint.epoch,
     head_root |-> c.head.beacon_block_root,
     head_slot |-> c.head.beacon_state.slot]

\* impl From<HelloMessage> for PeerSyncInfo
PeerSyncInfoFromHello(hello) ==
    [fork_version |-> hello.fork_version,
     finalized_root |-> hello.finalized_root,
     finalized_epoch |-> hello.finalized_epoch,
     head_root |-> hello.head_root,
     head_slot |-> hello.head_slot]

\* impl From<&Arc<BeaconChain<T>>> for PeerSyncInfo
PeerSyncInfoFromChain(c) == PeerSyncInfoFromHello(HelloMessageOf(c))

\* The Hello messages remote peers send.
HelloMessages ==
    UNION {[fork_version : ForkVersions,
            finalized_root : {ZeroHash, ForeignRoot, CanonicalRoot(StartSlot(e))},
            finalized_epoch : {e},
            head_root : {CanonicalRoot(HeadSlot), ForeignRoot},
            head_slot : {HeadSlot}] : e \in 0..(MaxEpoch + 1)}

(***************************************************************************)
(* Messages on the two channels.                                           *)
(***************************************************************************)
\* NetworkMessage::RPC(peer_id, RPCEvent::Request(request_id, rpc_request))
RPCRequestMessage(peer_id, request_id, rpc_request) ==
    [peer |-> peer_id, event |-> "Request", request_id |-> request_id,
     body |-> rpc_request]

\* NetworkMessage::RPC(peer_id,
\*     RPCEvent::Response(request_id, RPCErrorResponse::Success(rpc_response)))
RPCResponseMessage(peer_id, request_id, rpc_response) ==
    [peer |-> peer_id, event |-> "Response", request_id |-> request_id,
     body |-> rpc_response]

HelloRequest(hello) == [rpc |-> "Hello", hello |-> hello]
GoodbyeRequest(reason) == [rpc |-> "Goodbye", reason |-> reason]
HelloResponse(hello) == [rpc |-> "Hello", hello |-> hello]

SyncAddPeer(peer_id, info) == [type |-> "AddPeer", peer |-> peer_id, info |-> info]
SyncDisconnect(peer_id) == [type |-> "Disconnect", peer |-> peer_id]

\* What a handler sends: the messages for each channel, in the order sent.
Sends(net, sync) == [net |-> net, sync |-> sync]
NoSends == Sends(<< >>, << >>)
Then(a, b) == Sends(a.net \o b.net, a.sync \o b.sync)

\* UnboundedSender::try_send(message) applied to each message in turn: the
\* message is queued while the receiver exists, and is dropped (with a
\* warning) once it is gone.
TrySendAll(channel, rx_alive, messages) ==
    IF rx_alive THEN channel \o messages ELSE channel

(***************************************************************************)
(* NetworkContext                                                          *)
(***************************************************************************)
\* send_rpc_event(peer_id, rpc_event)
SendRpcEvent(message) == Sends(<<message>>, << >>)

\* send_rpc_request(request_id, peer_id, rpc_request): Option<RequestId>,
\* 0 when absent.
SendRpcRequest(request_id, peer_id, rpc_request) ==
    SendRpcEvent(RPCRequestMessage(peer_id,
                                   IF request_id = None THEN 0 ELSE request_id[2],
                                   rpc_request))

\* A fault of send_rpc_response: the default request id of send_rpc_request
\* in place of the id of the request.
SendRpcResponseDefaultId(peer_id, request_id, rpc_response) ==
    SendRpcEvent(RPCResponseMessage(peer_id, 0, rpc_response))

\* send_rpc_response(peer_id, request_id, rpc_response)
SendRpcResponse(peer_id, request_id, rpc_response) ==
    SendRpcEvent(RPCResponseMessage(peer_id, request_id, rpc_response))

\* disconnect(peer_id, reason)
Disconnect(peer_id, reason) ==
    SendRpcRequest(None, peer_id, GoodbyeRequest(reason))

(***************************************************************************)
(* MessageProcessor                                                        *)
(***************************************************************************)
\* send_to_sync(message)
SendToSync(message) == Sends(<< >>, <<message>>)

\* Faults of process_hello, against which the properties of the handshake are
\* tested: the peer that is behind is recognised before the roots are compared;
ProcessHelloIgnoreFirst(c, peer_id, hello) ==
    LET remote == PeerSyncInfoFromHello(hello)
        local == PeerSyncInfoFromChain(c)
    IN  IF local.fork_version # remote.fork_version
        THEN Disconnect(peer_id, "IrrelevantNetwork")
        ELSE IF remote.finalized_epoch < local.finalized_epoch
        THEN NoSends
        ELSE IF /\ remote.finalized_epoch <= local.finalized_epoch
                /\ remote.finalized_root # ZeroHash
                /\ local.finalized_root # ZeroHash
                /\ RootAtSlot(c, StartSlot(remote.finalized_epoch))
                       # Some(remote.finalized_root)
        THEN Disconnect(peer_id, "IrrelevantNetwork")
        ELSE IF StoreBlockExists(c, remote.head_root)
        THEN SendToSync(SyncAddPeer(peer_id, remote))
        ELSE SendToSync(SyncAddPeer(peer_id, remote))

\* a peer whose head is not in the store is dropped;
ProcessHelloKnownHeadOnly(c, peer_id, hello) ==
    LET remote == PeerSyncInfoFromHello(hello)
        local == PeerSyncInfoFromChain(c)
    IN  IF local.fork_version # remote.fork_version
        THEN Disconnect(peer_id, "IrrelevantNetwork")
        ELSE IF /\ remote.finalized_epoch <= local.finalized_epoch
                /\ remote.finalized_root # ZeroHash
                /\ local.finalized_root # ZeroHash
                /\ RootAtSlot(c, StartSlot(remote.finalized_epoch))
                       # Some(remote.finalized_root)
        THEN Disconnect(peer_id, "IrrelevantNetwork")
        ELSE IF remote.finalized_epoch < local.finalized_epoch
        THEN NoSends
        ELSE IF StoreBlockExists(c, remote.head_root)
        THEN SendToSync(SyncAddPeer(peer_id, remote))
        ELSE NoSends

\* the fork versions are not compared;
ProcessHelloNoForkCheck(c, peer_id, hello) ==
    LET remote == PeerSyncInfoFromHello(hello)
        local == PeerSyncInfoFromChain(c)
    IN  IF /\ remote.finalized_epoch <= local.finalized_epoch
           /\ remote.finalized_root # ZeroHash
           /\ local.finalized_root # ZeroHash
           /\ RootAtSlot(c, StartSlot(remote.finalized_epoch))
                  # Some(remote.finalized_root)
        THEN Disconnect(peer_id, "IrrelevantNetwork")
        ELSE IF remote.finalized_epoch < local.finalized_epoch
        THEN NoSends
        ELSE IF StoreBlockExists(c, remote.head_root)
        THEN SendToSync(SyncAddPeer(peer_id, remote))
        ELSE SendToSync(SyncAddPeer(peer_id, remote))

\* the local information is sent to sync in place of the remote one;
ProcessHelloAddsLocal(c, peer_id, hello) ==
    LET remote == PeerSyncInfoFromHello(hello)
        local == PeerSyncInfoFromChain(c)
    IN  IF local.fork_version # remote.fork_version
        THEN Disconnect(peer_id, "IrrelevantNetwork")
        ELSE IF /\ remote.finalized_epoch <= local.finalized_epoch
                /\ remote.finalized_root # ZeroHash
                /\ local.finalized_root # ZeroHash
                /\ RootAtSlot(c, StartSlot(remote.finalized_epoch))
                       # Some(remote.finalized_root)
        THEN Disconnect(peer_id, "IrrelevantNetwork")
        ELSE IF remote.finalized_epoch < local.finalized_epoch
        THEN NoSends
        ELSE IF StoreBlockExists(c, remote.head_root)
        THEN SendToSync(SyncAddPeer(peer_id, local))
        ELSE SendToSync(SyncAddPeer(peer_id, local))

\* the roots are compared at the start of the local finalized epoch.
ProcessHelloLocalEpochRoot(c, peer_id, hello) ==
    LET remote == PeerSyncInfoFromHello(hello)
        local == PeerSyncInfoFromChain(c)
    IN  IF local.fork_version # remote.fork_version
        THEN Disconnect(peer_id, "IrrelevantNetwork")
        ELSE IF /\ remote.finalized_epoch <= local.finalized_epoch
                /\ remote.finalized_root # ZeroHash
                /\ local.finalized_root # ZeroHash
                /\ RootAtSlot(c, StartSlot(local.finalized_epoch))
                       # Some(remote.finalized_root)
        THEN Disconnect(peer_id, "IrrelevantNetwork")
        ELSE IF remote.finalized_epoch < local.finalized_epoch
        THEN NoSends
        ELSE IF StoreBlockExists(c, remote.head_root)
        THEN SendToSync(SyncAddPeer(peer_id, remote))
        ELSE SendToSync(SyncAddPeer(peer_id, remote))

\* process_hello(peer_id, hello), with self.chain = c
ProcessHello(c, peer_id, hello) ==
    LET remote == PeerSyncInfoFromHello(hello)
        local == PeerSyncInfoFromChain(c)
    IN  IF local.fork_version # remote.fork_version
        THEN Disconnect(peer_id, "IrrelevantNetwork")
        ELSE IF /\ remote.finalized_epoch <= local.finalized_epoch
                /\ remote.finalized_root # ZeroHash
                /\ local.finalized_root # ZeroHash
                /\ RootAtSlot(c, StartSlot(remote.finalized_epoch))
                       # Some(remote.finalized_root)
        THEN Disconnect(peer_id, "IrrelevantNetwork")
        ELSE IF remote.finalized_epoch < local.finalized_epoch
        THEN NoSends
        ELSE IF StoreBlockExists(c, remote.head_root)
        THEN SendToSync(SyncAddPeer(peer_id, remote))
        ELSE SendToSync(SyncAddPeer(peer_id, remote))

\* A fault of the handlers: a send that fails ends the handler, and nothing
\* of it is sent.
HandleUnlessSendFails(call, sends) ==
    LET failed == \/ sends.net # << >> /\ ~network_rx_alive
                  \/ sends.sync # << >> /\ ~sync_rx_alive
    IN  /\ calls' = calls + 1
        /\ network_send' = IF failed THEN network_send
                           ELSE TrySendAll(network_send, network_rx_alive, sends.net)
        /\ sync_send' = IF failed THEN sync_send
                        ELSE TrySendAll(sync_send, sync_rx_alive, sends.sync)
        /\ pcall' = call
        /\ UNCHANGED <<chain, network_rx_alive, sync_rx_alive>>

\* A handler runs to completion: everything it sends is on the channels
\* when it returns.
Handle(call, sends) ==
    /\ calls' = calls + 1
    /\ network_send' = TrySendAll(network_send, network_rx_alive, sends.net)
    /\ sync_send' = TrySendAll(sync_send, sync_rx_alive, sends.sync)
    /\ pcall' = call
    /\ UNCHANGED <<chain, network_rx_alive, sync_rx_alive>>

\* A fault of on_connect: the peer is handed to sync before any Hello of it
\* was received.
OnConnectAddsPeer(peer_id) ==
    Handle([op |-> "on_connect", peer |-> peer_id],
           Then(SendRpcRequest(None, peer_id, HelloRequest(HelloMessageOf(chain))),
                SendToSync(SyncAddPeer(peer_id, PeerSyncInfoFromChain(chain)))))

\* on_connect(peer_id)
OnConnect(peer_id) ==
    Handle([op |-> "on_connect", peer |-> peer_id],
           SendRpcRequest(None, peer_id, HelloRequest(HelloMessageOf(chain))))

\* on_disconnect(peer_id)
OnDisconnect(peer_id) ==
    Handle([op |-> "on_disconnect", peer |-> peer_id],
           SendToSync(SyncDisconnect(peer_id)))

\* A fault of on_hello_request: the Hello is classified before it is
\* answered.
OnHelloRequestAnswersLast(peer_id, request_id, hello) ==
    Handle([op |-> "on_hello_request", peer |-> peer_id,
            request_id |-> request_id, hello |-> hello],
           Then(ProcessHello(chain, peer_id, hello),
                SendRpcResponse(peer_id, request_id,
                                HelloResponse(HelloMessageOf(chain)))))

\* on_hello_request(peer_id, request_id, hello)
OnHelloRequest(peer_id, request_id, hello) ==
    Handle([op |-> "on_hello_request", peer |-> peer_id,
            request_id |-> request_id, hello |-> hello],
           Then(SendRpcResponse(peer_id, request_id,
                                HelloResponse(HelloMessageOf(chain))),
                ProcessHello(chain, peer_id, hello)))

\* on_hello_response(peer_id, hello)
OnHelloResponse(peer_id, hello) ==
    Handle([op |-> "on_hello_response", peer |-> peer_id, hello |-> hello],
           ProcessHello(chain, peer_id, hello))


\* take_while(|(_root, slot)| start_slot <= slot): the pairs before the first
\* one whose slot is below start_slot.
TakeWhileFrom(seq, start_slot) ==
    LET failing == {i \in 1..Len(seq) : ~(start_slot <= seq[i].slot)}
    IN  IF failing = {} THEN seq
        ELSE SubSeq(seq, 1, (CHOOSE i \in failing : \A j \in failing : i <= j) - 1)

\* Faults of the collection of blocks: it ends at the first root the store
\* does not hold;
StoreGetBlocksUntilMissing(c, roots) ==
    LET absent == {i \in 1..Len(roots) : roots[i] \notin DOMAIN c.blocks}
        n == IF absent = {} THEN Len(roots)
             ELSE (CHOOSE i \in absent : \A j \in absent : i <= j) - 1
    IN  [i \in 1..n |-> c.blocks[roots[i]]]

\* each root gives its block once only.
StoreGetBlocksOnce(c, roots) ==
    LET first == SelectSeq([i \in 1..Len(roots) |-> i],
                           LAMBDA i : /\ roots[i] \in DOMAIN c.blocks
                                      /\ \A j \in 1..(i - 1) : roots[j] # roots[i])
    IN  [k \in 1..Len(first) |-> c.blocks[roots[first[k]]]]

\* filter_map over roots with chain.store.get::<BeaconBlock>: the blocks of
\* the roots the store holds, in the order of the roots.
RECURSIVE StoreGetBlocks(_, _)
StoreGetBlocks(c, roots) ==
    IF roots = << >> THEN << >>
    ELSE LET got == StoreGetBlock(c, Head(roots))
         IN  (IF got[1] = "Some" THEN <<got[2]>> ELSE << >>)
             \o StoreGetBlocks(c, Tail(roots))

\* A fault of on_beacon_blocks_request: the blocks are left as collected.
NotDeduped(blocks) == blocks

\* Vec::reverse
Reverse(seq) == [i \in 1..Len(seq) |-> seq[Len(seq) + 1 - i]]

\* Vec::dedup_by_key(|b| b.slot): of consecutive blocks with the same slot
\* only the first is kept.
RECURSIVE DedupBySlot(_)
DedupBySlot(blocks) ==
    IF Len(blocks) <= 1 THEN blocks
    ELSE LET rest == DedupBySlot(Tail(blocks))
         IN  IF blocks[1].slot = blocks[2].slot
             THEN <<blocks[1]>> \o Tail(rest)
             ELSE <<blocks[1]>> \o rest

\* blocks.as_ssz_bytes()
SszEncode(blocks) == <<"ssz", blocks>>

BeaconBlocksResponse(bytes) == [rpc |-> "BeaconBlocks", bytes |-> bytes]

SyncUnknownBlock(peer_id, block) ==
    [type |-> "UnknownBlock", peer |-> peer_id, block |-> block]

SyncBeaconBlocksResponse(peer_id, request_id, beacon_blocks) ==
    [type |-> "BeaconBlocksResponse", peer |-> peer_id,
     request_id |-> request_id, beacon_blocks |-> beacon_blocks]

SyncRecentBeaconBlocksResponse(peer_id, request_id, beacon_blocks) ==
    [type |-> "RecentBeaconBlocksResponse", peer |-> peer_id,
     request_id |-> request_id, beacon_blocks |-> beacon_blocks]

\* on_recent_beacon_blocks_request(peer_id, request_id, request)
OnRecentBeaconBlocksRequest(peer_id, request_id, request) ==
    LET blocks == StoreGetBlocks(chain, request.block_roots)
    IN  Handle([op |-> "on_recent_beacon_blocks_request", peer |-> peer_id,
                request_id |-> request_id, request |-> request],
               SendRpcResponse(peer_id, request_id,
                               BeaconBlocksResponse(SszEncode(blocks))))

\* One more than the largest slot or count.
SlotModulus == 2 ^ SlotBits

\* a + b on unsigned integers where overflow is not checked.
WrappingAdd(a, b) == (a + b) % SlotModulus

\* req.start_slot + req.count is computed and exceeds the largest integer:
\* the sum is the right side of `&&`, computed for the slots of the walk
\* that are not below start_slot.
RangeAddOverflows(c, req) ==
    /\ req.start_slot + req.count >= SlotModulus
    /\ \E s \in DOMAIN c.block_roots : req.start_slot <= s

\* The blocks on_beacon_blocks_request collects for req.
BeaconBlocksInRange(c, req) ==
    LET in_range == SelectSeq(RevIterBlockRoots(c),
                        LAMBDA e : /\ req.start_slot <= e.slot
                                   /\ WrappingAdd(req.start_slot, req.count) > e.slot)
        taken == TakeWhileFrom(in_range, req.start_slot)
        found == StoreGetBlocks(c, [i \in 1..Len(taken) |-> taken[i].root])
        kept == SelectSeq(found, LAMBDA b : b.slot >= req.start_slot)
    IN  DedupBySlot(Reverse(kept))

\* on_beacon_blocks_request(peer_id, request_id, req).  In a build with
\* overflow checks an overflowing sum panics and nothing is sent; without
\* them the sum wraps.
OnBeaconBlocksRequest(peer_id, request_id, req, overflow_checks) ==
    LET panicked == overflow_checks /\ RangeAddOverflows(chain, req)
    IN  Handle([op |-> "on_beacon_blocks_request", peer |-> peer_id,
                request_id |-> request_id, req |-> req, panicked |-> panicked],
               IF panicked THEN NoSends
               ELSE SendRpcResponse(peer_id, request_id,
                        BeaconBlocksResponse(SszEncode(BeaconBlocksInRange(chain, req)))))

\* on_beacon_blocks_response(peer_id, request_id, beacon_blocks)
OnBeaconBlocksResponse(peer_id, request_id, beacon_blocks) ==
    Handle([op |-> "on_beacon_blocks_response", peer |-> peer_id,
            request_id |-> request_id, beacon_blocks |-> beacon_blocks],
           SendToSync(SyncBeaconBlocksResponse(peer_id, request_id, beacon_blocks)))

\* on_recent_beacon_blocks_response(peer_id, request_id, beacon_blocks)
OnRecentBeaconBlocksResponse(peer_id, request_id, beacon_blocks) ==
    Handle([op |-> "on_recent_beacon_blocks_response", peer |-> peer_id,
            request_id |-> request_id, beacon_blocks |-> beacon_blocks],
           SendToSync(SyncRecentBeaconBlocksResponse(peer_id, request_id, beacon_blocks)))

\* A fault of on_block_gossip: every block that was not processed is handed
\* to sync.
OnBlockGossipUnlessProcessed(peer_id, block, outcome) ==
    Handle([op |-> "on_block_gossip", peer |-> peer_id, block |-> block,
            outcome |-> outcome],
           IF outcome # "Processed"
           THEN SendToSync(SyncUnknownBlock(peer_id, block))
           ELSE NoSends)

\* on_block_gossip(peer_id, block); `outcome` is what chain.process_block
\* answers: "Processed", "ParentUnknown", "Other" (any other
\* BlockProcessingOutcome) or "Err".
OnBlockGossip(peer_id, block, outcome) ==
    Handle([op |-> "on_block_gossip", peer |-> peer_id, block |-> block,
            outcome |-> outcome],
           IF outcome = "ParentUnknown"
           THEN SendToSync(SyncUnknownBlock(peer_id, block))
           ELSE NoSends)

\* on_attestation_gossip(_peer_id, msg); `outcome` is what
\* chain.process_attestation answers: "Processed", "Other" or "Err".
OnAttestationGossip(peer_id, msg, outcome) ==
    Handle([op |-> "on_attestation_gossip", peer |-> peer_id, msg |-> msg,
            outcome |-> outcome],
           NoSends)

(***************************************************************************)
(* The forwarding checks.  The store reads, the state transition and the   *)
(* proposer lookup are answered by `outcome`; a BLS signature is the       *)
(* triple it was made from, so that it verifies against exactly one public *)
(* key, message and domain.                                                *)
(***************************************************************************)
Epoch(slot) == slot \div SlotsPerEpoch

\* RelativeEpoch::from_slot(base, other, slots_per_epoch): Ok(relative_epoch)
\* or Err.  Epoch subtraction saturates at 0, where Current answers first.
RelativeEpochFromSlot(base, other) ==
    IF Epoch(other) = Epoch(base) THEN Some("Current")
    ELSE IF Epoch(other) = Epoch(base) - 1 THEN Some("Previous")
    ELSE IF Epoch(other) = Epoch(base) + 1 THEN Some("Next")
    ELSE None

\* The signature of the holder of `pubkey` over `message` under `domain`.
Sign(pubkey, message, domain) ==
    [signer |-> pubkey, message |-> message, domain |-> domain]

\* SignatureSet::single(signature, pubkey, message, domain).is_valid()
SignatureIsValid(signature, pubkey, message, domain) ==
    signature = Sign(pubkey, message, domain)

\* block.signed_root(): the root of the block without its signature.
SignedRoot(block) == <<"signed_root", block.slot, block.parent_root, block.state_root>>

\* spec.get_domain(epoch, Domain::BeaconProposer, &state.fork)
ProposerDomain(slot) == <<"BeaconProposer", Epoch(slot)>>

\* chain.store.get::<BeaconState>(state_root), as matched by Ok(Some(state)):
\* a store error counts as no state.
StoreGetState(c, state_root, read) ==
    IF read = "Ok" /\ state_root \in DOMAIN c.states
    THEN Some(c.states[state_root]) ELSE None

\* The first half of should_forward_block: the parent block and the state
\* to verify against, or None.
ParentBlockOpt(c, block, outcome) ==
    LET parent == IF outcome.block_read = "Ok"
                  THEN StoreGetBlock(c, block.parent_root) ELSE None
    IN  IF parent = None THEN None
        ELSE LET parent_block == parent[2]
                 state_res ==
                    IF c.head.beacon_state_root = parent_block.state_root
                    THEN Some(c.head.beacon_state)
                    ELSE StoreGetState(c, parent_block.state_root, outcome.state_read)
             IN  IF state_res = None THEN None
                 ELSE Some([parent_block |-> parent_block, state |-> state_res[2]])

\* state.validators.get(i)
ValidatorsGet(state, i) ==
    IF i + 1 \in DOMAIN state.validators THEN Some(state.validators[i + 1]) ELSE None

\* A fault of should_forward_block: the block of any proposer the state
\* knows is forwarded, whatever its signature.
ForwardBlockUnverified(c, block, outcome) ==
    LET found == ParentBlockOpt(c, block, outcome)
    IN  /\ found # None
        /\ outcome.proposer_index # None
        /\ ValidatorsGet(found[2].state, outcome.proposer_index[2]) # None

\* A fault of should_forward_block: a block too far from its parent is
\* verified like any other, without advancing the state.
ForwardBlockNoAdvance(c, block, outcome) ==
    LET found == ParentBlockOpt(c, block, outcome)
    IN  /\ found # None
        /\ outcome.proposer_index # None
        /\ LET proposer == ValidatorsGet(found[2].state, outcome.proposer_index[2])
           IN  /\ proposer # None
               /\ SignatureIsValid(block.signature, proposer[2], SignedRoot(block),
                                   ProposerDomain(block.slot))

\* The second half of should_forward_block, with the parent block and the
\* state found: the proposer of the block's slot is looked up in the state,
\* advanced first when the block is too far from its parent, and the
\* signature verified against the proposer's key.
ForwardBlockOn(parent_block, state, block, outcome) ==
    LET relative_epoch == RelativeEpochFromSlot(parent_block.slot, block.slot)
        proposer == IF outcome.proposer_index = None THEN None
                    ELSE ValidatorsGet(state, outcome.proposer_index[2])
        verified == /\ proposer # None
                    /\ SignatureIsValid(block.signature, proposer[2],
                                        SignedRoot(block),
                                        ProposerDomain(block.slot))
    IN  IF relative_epoch # None THEN verified
        ELSE IF state.slot > block.slot THEN FALSE
        ELSE IF /\ outcome.slot_error # None
                /\ outcome.slot_error[2] < block.slot - state.slot THEN FALSE
        ELSE IF outcome.committee_cache = "Err" THEN FALSE
        ELSE verified

\* should_forward_block(block) -> bool.  `outcome` answers: block_read and
\* state_read, "Ok" or "Err" of the store; slot_error, None or Some(k) when
\* the k-th per_slot_processing call (from 0) fails; committee_cache, "Ok" or
\* "Err" of build_committee_cache; proposer_index, Some(i) or None for the
\* Err of get_beacon_proposer_index.
ForwardBlock(c, block, outcome) ==
    LET found == ParentBlockOpt(c, block, outcome)
    IN  IF found = None THEN FALSE
        ELSE ForwardBlockOn(found[2].parent_block, found[2].state, block, outcome)

\* A forwarding check reads the chain and sends nothing: it leaves the
\* processor as it was, so one check per run covers them all.
Check(call) ==
    /\ calls = 0
    /\ calls' = 1
    /\ pcall' = call
    /\ UNCHANGED <<chain, network_send, sync_send, network_rx_alive, sync_rx_alive>>

\* A call of should_forward_block on the processor.
ShouldForwardBlock(block, outcome) ==
    Check([op |-> "should_forward_block", block |-> block, outcome |-> outcome,
           result |-> ForwardBlock(chain, block, outcome)])

\* should_forward_block next to the sync task, which shares the chain: the
\* head is read once for the comparison of the state roots (line 449) and
\* once more for the state (line 450), and may be replaced in between.
\* The first step ends after the comparison when it succeeds, and is the
\* whole call otherwise.
ShouldForwardBlockBegin(block, outcome) ==
    LET parent == IF outcome.block_read = "Ok"
                  THEN StoreGetBlock(chain, block.parent_root) ELSE None
    IN  /\ calls = 0
        /\ pcall.op = "new"
        /\ IF parent # None /\ chain.head.beacon_state_root = parent[2].state_root
           THEN /\ pcall' = [op |-> "should_forward_block", at |-> "head_state",
                             block |-> block, outcome |-> outcome,
                             parent_block |-> parent[2]]
                /\ calls' = calls
           ELSE /\ pcall' = [op |-> "should_forward_block", at |-> "returned",
                             block |-> block, outcome |-> outcome,
                             fast_path |-> FALSE,
                             result |-> ForwardBlock(chain, block, outcome)]
                /\ calls' = 1
        /\ UNCHANGED <<chain, network_send, sync_send, network_rx_alive, sync_rx_alive>>

\* The second step of the fast path: the state of the head as it is now is
\* cloned and the block verified against it.
ShouldForwardBlockOnHead ==
    /\ pcall.op = "should_forward_block"
    /\ pcall.at = "head_state"
    /\ pcall' = [op |-> "should_forward_block", at |-> "returned",
                 block |-> pcall.block, outcome |-> pcall.outcome,
                 fast_path |-> TRUE,
                 parent_block |-> pcall.parent_block,
                 state_root |-> chain.head.beacon_state_root,
                 result |-> ForwardBlockOn(pcall.parent_block, chain.head.beacon_state,
                                           pcall.block, pcall.outcome)]
    /\ calls' = 1
    /\ UNCHANGED <<chain, network_send, sync_send, network_rx_alive, sync_rx_alive>>

\* The sync task makes the block at the next slot the head of the chain.
HeadReplaced ==
    /\ chain.head.beacon_state.slot = HeadSlot
    /\ chain' = [chain EXCEPT
                    !.head.beacon_block_root = CanonicalRoot(HeadSlot + 1),
                    !.head.beacon_state_root = StateRoot(HeadSlot + 1),
                    !.head.beacon_state.slot = HeadSlot + 1,
                    !.head.beacon_state.validators = ValidatorsAt(HeadSlot + 1)]
    /\ UNCHANGED <<network_send, sync_send, network_rx_alive, sync_rx_alive, pcall, calls>>

\* The message an attestation signs.
AttestationRoot(data) == <<"attestation_data", data.beacon_block_root>>

AttestationDomain == <<"Attestation">>

\* get_indexed_attestation(state, attestation), then
\* indexed_attestation_signature_set(state, ..), then signature.is_valid():
\* "Valid", "Invalid", or "Err" when one of the two conversions fails.
\* `indexed` and `signature_set` answer "Ok" or "Err" for the conversions; the
\* signature set cannot be built for an attester the state does not know.
VerifyAttestation(state, attestation, indexed, signature_set) ==
    LET attester == ValidatorsGet(state, attestation.attester)
    IN  IF indexed = "Err" \/ signature_set = "Err" \/ attester = None THEN "Err"
        ELSE IF SignatureIsValid(attestation.signature, attester[2],
                                 AttestationRoot(attestation.data), AttestationDomain)
        THEN "Valid" ELSE "Invalid"

\* A fault of should_forward_attestation: only the head state is tried.
ForwardAttestationHeadOnly(c, attestation, outcome) ==
    [result |-> VerifyAttestation(c.head.beacon_state, attestation,
                                  outcome.head_indexed,
                                  outcome.head_signature_set) = "Valid",
     store_reads |-> 0]

\* should_forward_attestation(attestation): its answer and the number of
\* reads of the store it made.  `outcome` answers the conversions against the
\* head state (head_indexed, head_signature_set) and against the stored state
\* (state_indexed, state_signature_set), and the two reads of the store
\* (block_read, state_read), each "Ok" or "Err".
ForwardAttestation(c, attestation, outcome) ==
    IF VerifyAttestation(c.head.beacon_state, attestation, outcome.head_indexed,
                         outcome.head_signature_set) = "Valid"
    THEN [result |-> TRUE, store_reads |-> 0]
    ELSE
    LET block == IF outcome.block_read = "Ok"
                 THEN StoreGetBlock(c, attestation.data.beacon_block_root) ELSE None
    IN  IF block = None THEN [result |-> FALSE, store_reads |-> 1]
        ELSE
        LET state == StoreGetState(c, block[2].state_root, outcome.state_read)
        IN  IF state = None THEN [result |-> FALSE, store_reads |-> 2]
            ELSE [result |-> VerifyAttestation(state[2], attestation,
                                               outcome.state_indexed,
                                               outcome.state_signature_set) = "Valid",
                  store_reads |-> 2]

\* A call of should_forward_attestation on the processor.
ShouldForwardAttestation(attestation, outcome) ==
    LET run == ForwardAttestation(chain, attestation, outcome)
    IN  Check([op |-> "should_forward_attestation", attestation |-> attestation,
               outcome |-> outcome, result |-> run.result,
               store_reads |-> run.store_reads])

(***************************************************************************)
(* Inputs of the handlers.                                                 *)
(***************************************************************************)
BeaconBlocksRequests ==
    [start_slot : {0, StartSlot(1)}, count : {0, SlotsPerEpoch + 1}]

RecentBeaconBlocksRequests ==
    [block_roots : {<< >>, <<CanonicalRoot(HeadSlot), CanonicalRoot(0)>>,
                    <<ForeignRoot, CanonicalRoot(0)>>,
                    <<CanonicalRoot(1), CanonicalRoot(1)>>}]

\* Blocks peers send: the next block on the head, and one whose parent the
\* chain does not know.
GossipBlocks ==
    {CanonicalBlock(HeadSlot + 1),
     [slot |-> HeadSlot + 1, parent_root |-> ForeignRoot, state_root |-> StateRoot(0)]}

BlockBatches == {<< >>, <<CanonicalBlock(HeadSlot + 1)>>}

Attestations == {[data |-> [beacon_block_root |-> CanonicalRoot(HeadSlot)]]}

(***************************************************************************)
(* Specifications.                                                         *)
(***************************************************************************)
ProcessorInitOn(chains) ==
    /\ chain \in chains
    /\ network_send = << >>
    /\ sync_send = << >>
    /\ network_rx_alive = TRUE
    /\ sync_rx_alive = TRUE
    /\ pcall = [op |-> "new"]
    /\ calls = 0

ProcessorInit == ProcessorInitOn(Chains)

Init == BehaviourInit /\ ProcessorInit

\* The Behaviour reads nothing of the processor: its specifications run next
\* to one chain.
InitBehaviour == Init /\ chain = MakeChain(0, 0, {}, {})

\* Spec: the Behaviour, every interleaving over a small universe.
GossipsubMessages ==
    {GossipsubMessage(1, <<"beacon_block">>),
     GossipsubMessage(1, <<"beacon_attestation">>),
     GossipsubMessage(2, <<"beacon_block">>)}

\* The listen addresses of an identify info: none, and lists around the
\* limit; an address is its position in the list.
ListenAddrs ==
    {[i \in 1..n |-> i] : n \in {0, MAX_IDENTIFY_ADDRESSES, MAX_IDENTIFY_ADDRESSES + 1,
                                 MAX_IDENTIFY_ADDRESSES + 5}}

MayInject == Len(enqueued_log) < MaxEvents /\ Len(put_log) < MaxEvents

Next ==
    /\ UNCHANGED pvars
    /\ \/ /\ MayInject
          /\ \/ \E src \in Peers, id \in MessageIds, m \in GossipsubMessages :
                    InjectGossipsubMessage(src, id, m)
             \/ \E p \in Peers : InjectGossipsubSubscribed(p, "beacon_block")
             \/ \E p \in Peers : InjectGossipsubUnsubscribed(p, "beacon_block")
             \/ \E p \in Peers : InjectPeerDialed(p)
             \/ \E p \in Peers : InjectPeerDisconnected(p)
             \/ \E p \in Peers : InjectRPC(p, "Goodbye")
             \/ InjectDiscv5
       \/ \E src \in Peers, id \in MessageIds : PropagateMessage(src, id)
       \/ Poll

Spec == InitBehaviour /\ [][Next]_vars

\* SpecFair: peers keep being dialled and disconnected while the host polls;
\* the swarm polls the behaviour again and again, which is weak fairness of
\* Poll.  The histories of enqueued and polled events are only what an
\* observer recorded: ForgetHistory lets the record start afresh from the
\* queue as it stands, so that events can be injected for ever within the
\* bounds.
ForgetHistory ==
    /\ enqueued_log # events
    /\ enqueued_log' = events
    /\ polled_log' = << >>
    /\ UNCHANGED <<events, seen_gossip_messages, bcall>>
    /\ CacheHistoryUnchanged

NextFair ==
    /\ UNCHANGED pvars
    /\ \/ /\ MayInject
          /\ \/ \E p \in Peers : InjectPeerDialed(p)
             \/ \E p \in Peers : InjectPeerDisconnected(p)
       \/ Poll
       \/ ForgetHistory

SpecFair == InitBehaviour /\ [][NextFair]_vars /\ WF_vars(Poll /\ UNCHANGED pvars)

\* SpecIdentify: identify events between gossip, dialled peers and polls.
NextIdentify ==
    /\ UNCHANGED pvars
    /\ \/ /\ MayInject
          /\ \/ \E m \in GossipsubMessages : InjectGossipsubMessage("p1", "id1", m)
             \/ InjectPeerDialed("p1")
       \/ \E p \in Peers, a \in ListenAddrs : InjectIdentifyReceived(p, a)
       \/ \E k \in {"identify_sent", "identify_error"} : InjectIdentifyOther(k)
       \/ Poll

SpecIdentify == InitBehaviour /\ [][NextIdentify]_vars

\* SpecLru: distinct messages fill the cache; once it is nearly full, earlier
\* messages are injected again, from any peer under any message id.
FreshMessage == GossipsubMessage(Len(put_log) + 1, <<"beacon_block">>)

\* The messages injected again are the two oldest: one the codec accepts and
\* one it rejects.
ReinjectedPayloads == {1, 2}

Reinjections == Cardinality({i \in 1..Len(put_log) : put_log[i].data # i})

NextLru ==
    /\ UNCHANGED pvars
    /\ \/ /\ Len(events) < MaxQueue
          /\ Len(put_log) - Reinjections < MaxFresh
          /\ InjectGossipsubMessage("p1", "id1", FreshMessage)
       \/ /\ Len(events) < MaxQueue
          /\ Len(seen_gossip_messages) >= SEEN_CACHE_CAPACITY - 1
          /\ Reinjections < MaxReinjections
          /\ \E src \in Peers, id \in MessageIds, d \in ReinjectedPayloads :
                InjectGossipsubMessage(src, id, GossipsubMessage(d, <<"beacon_block">>))
       \/ Poll

SpecLru == InitBehaviour /\ [][NextLru]_vars

\* SpecRefresh: distinct messages keep arriving; the oldest message is
\* delivered again, by any peer under any id, whenever it has become the
\* least recently used entry of the full cache, or it is not and makes way.
RedeliveredMessage == GossipsubMessage(1, <<"beacon_block">>)

NextRefresh ==
    /\ UNCHANGED pvars
    /\ \/ /\ Len(events) < MaxQueue
          /\ Len(put_log) < 2 * SEEN_CACHE_CAPACITY + MaxReinjections + 1
          /\ InjectGossipsubMessage("p1", "id1", FreshMessage)
       \/ /\ Len(events) < MaxQueue
          /\ Len(seen_gossip_messages) = SEEN_CACHE_CAPACITY
          /\ seen_gossip_messages[SEEN_CACHE_CAPACITY] = RedeliveredMessage
          /\ \E src \in Peers, id \in MessageIds :
                InjectGossipsubMessage(src, id, RedeliveredMessage)
       \/ Poll

SpecRefresh == InitBehaviour /\ [][NextRefresh]_vars

\* SpecProcessor: the handlers of the MessageProcessor on any chain, with the
\* receivers of both channels alive.
NextProcessor ==
    /\ UNCHANGED bvars
    /\ calls < MaxCalls
    /\ \/ \E p \in Peers : OnConnect(p)
       \/ \E p \in Peers : OnDisconnect(p)
       \/ \E p \in Peers, r \in RequestIds, h \in HelloMessages : OnHelloRequest(p, r, h)
       \/ \E p \in Peers, h \in HelloMessages : OnHelloResponse(p, h)
       \/ \E p \in Peers, r \in RequestIds, q \in RecentBeaconBlocksRequests :
             OnRecentBeaconBlocksRequest(p, r, q)
       \/ \E p \in Peers, r \in RequestIds, q \in BeaconBlocksRequests,
             oc \in BOOLEAN :
             OnBeaconBlocksRequest(p, r, q, oc)
       \/ \E p \in Peers, r \in RequestIds, b \in BlockBatches :
             OnBeaconBlocksResponse(p, r, b)
       \/ \E p \in Peers, r \in RequestIds, b \in BlockBatches :
             OnRecentBeaconBlocksResponse(p, r, b)
       \/ \E p \in Peers, b \in GossipBlocks,
             o \in {"Processed", "ParentUnknown", "Other", "Err"} :
             OnBlockGossip(p, b, o)
       \/ \E p \in Peers, a \in Attestations, o \in {"Processed", "Other", "Err"} :
             OnAttestationGossip(p, a, o)

SpecProcessor == Init /\ [][NextProcessor]_vars

\* SpecBlocks: the two handlers that serve blocks, for every range of slots,
\* on chains with skipped slots, with blocks missing from the store and with
\* block roots known from genesis or from a later slot on.
FirstSkipped == StartSlot(1) + 1

BlockChains ==
    {MakeChain(1, f, m, k) :
        f \in {0, StartSlot(1)},
        m \in {{}, {CanonicalRoot(HeadSlot)}, {CanonicalRoot(StartSlot(1))}},
        k \in {{}, {FirstSkipped}, {FirstSkipped, FirstSkipped + 1}}}

RangeRequests == [start_slot : 0..HeadSlot, count : 0..(SlotsPerEpoch + 1)]

InitBlocks == BehaviourInit /\ ProcessorInitOn(BlockChains)

NextBlocks ==
    /\ UNCHANGED bvars
    /\ calls < MaxCalls
    /\ \/ \E p \in Peers, r \in RequestIds, q \in RangeRequests, oc \in BOOLEAN :
             OnBeaconBlocksRequest(p, r, q, oc)
       \/ \E p \in Peers, r \in RequestIds, q \in RecentBeaconBlocksRequests :
             OnRecentBeaconBlocksRequest(p, r, q)

SpecBlocks == InitBlocks /\ [][NextBlocks]_vars


\* SpecOverflow: on_beacon_blocks_request for start slots and counts up to
\* the largest integer, in builds with and without overflow checks.
WideRangeRequests ==
    [start_slot : {0, StartSlot(1), HeadSlot, SlotModulus - 1},
     count : {0, 1, SlotModulus - HeadSlot, SlotModulus - 1}]

InitOverflow == BehaviourInit /\ ProcessorInitOn(BlockChains)

NextOverflow ==
    /\ UNCHANGED bvars
    /\ calls < MaxCalls
    /\ \E p \in Peers, r \in RequestIds, q \in WideRangeRequests, oc \in BOOLEAN :
          OnBeaconBlocksRequest(p, r, q, oc)

SpecOverflow == InitOverflow /\ [][NextOverflow]_vars

\* SpecChannels: handlers that send on both channels, while the network
\* service or the sync service drops its receiver; one call more than in
\* the other specifications, so that a call follows a call whose send failed.
NetworkReceiverDropped ==
    /\ network_rx_alive
    /\ network_rx_alive' = FALSE
    /\ UNCHANGED <<chain, network_send, sync_send, sync_rx_alive, pcall, calls>>

SyncReceiverDropped ==
    /\ sync_rx_alive
    /\ sync_rx_alive' = FALSE
    /\ UNCHANGED <<chain, network_send, sync_send, network_rx_alive, pcall, calls>>

ChannelHellos ==
    {h \in HelloMessages : /\ h.finalized_root = CanonicalRoot(StartSlot(h.finalized_epoch))
                           /\ h.head_root = CanonicalRoot(HeadSlot)}

NextChannels ==
    /\ UNCHANGED bvars
    /\ \/ NetworkReceiverDropped
       \/ SyncReceiverDropped
       \/ /\ calls <= MaxCalls
          /\ \/ OnConnect("p1")
             \/ \E r \in RequestIds, h \in ChannelHellos : OnHelloRequest("p1", r, h)
             \/ \E b \in GossipBlocks : OnBlockGossip("p1", b, "ParentUnknown")

SpecChannels == Init /\ [][NextChannels]_vars

\* SpecForward: the two forwarding checks, on chains whose store lacks a
\* block or a state, for blocks and attestations signed by the right and by
\* the wrong key, under every answer of the store and of the state
\* transition.
WithoutStates(c, roots) ==
    [c EXCEPT !.states = [r \in (DOMAIN c.states) \ roots |-> c.states[r]]]

ForwardChains ==
    {WithoutStates(MakeChain(1, 0, m, {}), ms) :
        m \in {{}, {CanonicalRoot(0)}}, ms \in {{}, {StateRoot(0)}}}

PublicKeys == {"pk1", "pk2"}

SignedBlock(slot, parent_root, pubkey, domain) ==
    LET unsigned == [slot |-> slot, parent_root |-> parent_root,
                     state_root |-> StateRoot(slot)]
    IN  [slot |-> slot, parent_root |-> parent_root, state_root |-> StateRoot(slot),
         signature |-> Sign(pubkey, SignedRoot(unsigned), domain)]

ForwardBlocks ==
    {SignedBlock(slot, parent_root, pubkey, ProposerDomain(slot)) :
        slot \in 0..(HeadSlot + 1),
        parent_root \in {CanonicalRoot(0), CanonicalRoot(1), CanonicalRoot(HeadSlot),
                         ForeignRoot},
        pubkey \in PublicKeys}
    \cup {SignedBlock(slot, parent_root, "pk2", AttestationDomain) :
            slot \in 0..(HeadSlot + 1),
            parent_root \in {CanonicalRoot(0), CanonicalRoot(HeadSlot)}}

ForwardBlockOutcomes ==
    [block_read : {"Ok", "Err"}, state_read : {"Ok", "Err"},
     slot_error : {None, Some(0), Some(SlotsPerEpoch)},
     committee_cache : {"Ok", "Err"},
     proposer_index : {None, Some(0), Some(1), Some(2)}]

SignedAttestation(beacon_block_root, attester, pubkey, domain) ==
    LET data == [beacon_block_root |-> beacon_block_root]
    IN  [data |-> data, attester |-> attester,
         signature |-> Sign(pubkey, AttestationRoot(data), domain)]

ForwardAttestations ==
    {SignedAttestation(root, attester, pubkey, AttestationDomain) :
        root \in {CanonicalRoot(0), CanonicalRoot(HeadSlot), ForeignRoot},
        attester \in 0..2, pubkey \in PublicKeys}
    \cup {SignedAttestation(CanonicalRoot(0), 1, "pk1", ProposerDomain(0))}

ForwardAttestationOutcomes ==
    [head_indexed : {"Ok", "Err"}, head_signature_set : {"Ok", "Err"},
     block_read : {"Ok", "Err"}, state_read : {"Ok", "Err"},
     state_indexed : {"Ok", "Err"}, state_signature_set : {"Ok", "Err"}]

InitForward == BehaviourInit /\ ProcessorInitOn(ForwardChains)

NextForward ==
    /\ UNCHANGED bvars
    /\ calls = 0
    /\ \/ \E b \in ForwardBlocks, o \in ForwardBlockOutcomes : ShouldForwardBlock(b, o)
       \/ \E a \in ForwardAttestations, o \in ForwardAttestationOutcomes :
             ShouldForwardAttestation(a, o)

SpecForward == InitForward /\ [][NextForward]_vars

\* SpecRace: should_forward_block while the sync task replaces the head.
NextRace ==
    /\ UNCHANGED bvars
    /\ \/ /\ pcall.op = "new"
          /\ \E b \in ForwardBlocks, o \in ForwardBlockOutcomes :
                ShouldForwardBlockBegin(b, o)
       \/ ShouldForwardBlockOnHead
       \/ HeadReplaced

SpecRace == InitForward /\ [][NextRace]_vars

(***************************************************************************)
(* Signature<PublicKey, T> (eth2/utils/lighthouse_bls/src/signature.rs).   *)
(*                                                                         *)
(* The wrapped point is any T: TSignature<PublicKey>.  A point is modelled *)
(* by what it signs: the set of keys that signed and the message.          *)
(***************************************************************************)
SignaturePoints == [signers : SUBSET PublicKeys, message : {"m1", "m2"}]

\* T::verify(&self, pubkey, msg)
PointVerify(point, pubkey, msg) ==
    point.signers = {pubkey} /\ point.message = msg

\* T::fast_aggregate_verify(&self, pubkeys, msg)
PointFastAggregateVerify(point, pubkeys, msg) ==
    /\ pubkeys # << >>
    /\ point.signers = {pubkeys[i] : i \in DOMAIN pubkeys}
    /\ point.message = msg

\* T::add_assign(&mut self, other)
PointAddAssign(point, other) ==
    [point EXCEPT !.signers = point.signers \cup other.signers]

\* T::serialize(&self)
PointSerialize(point) == <<"bytes", point>>

\* A step of a Signature method: only the call record changes.
SignatureStep ==
    UNCHANGED <<bvars, chain, network_send, sync_send, network_rx_alive,
                sync_rx_alive, calls>>

\* Signature::add_assign: self.point.add_assign(&other.point)
SignatureAddAssign(self, other) ==
    /\ pcall.op = "new"
    /\ pcall' = [op |-> "add_assign", self |-> self, other |-> other,
                 at |-> "returned",
                 point |-> PointAddAssign(self.point, other.point)]
    /\ SignatureStep

\* Signature::serialize: self.point.serialize()
SignatureSerialize(self) ==
    /\ pcall.op = "new"
    /\ pcall' = [op |-> "serialize", self |-> self, at |-> "returned",
                 result |-> PointSerialize(self.point)]
    /\ SignatureStep

\* A call of `method` enters its first frame.  `frames` is the build: TRUE
\* when every call pushes a frame, FALSE when a call in tail position
\* reuses the frame of its caller.
SignatureEnter(method, self, args, msg, frames) ==
    /\ pcall.op = "new"
    /\ pcall' = [op |-> method, self |-> self, args |-> args, msg |-> msg,
                 frames |-> frames, at |-> "running", reentered |-> FALSE,
                 stack |-> <<method>>]
    /\ SignatureStep

\* The frame on top of the stack calls `callee` with the arguments it was
\* given, in tail position.
SignatureCalls(callee) ==
    /\ pcall.at = "running"
    /\ pcall' = IF ~pcall.frames
                    THEN [pcall EXCEPT !.reentered = TRUE]
                ELSE IF Len(pcall.stack) < MaxStack
                    THEN [pcall EXCEPT !.stack = Append(@, callee)]
                ELSE [pcall EXCEPT !.at = "stack_overflow"]
    /\ SignatureStep

\* Signature::verify(&self, pubkey, msg): the call.
SignatureVerify(self, pubkey, msg, frames) ==
    SignatureEnter("Signature::verify", self, pubkey, msg, frames)

\* The body of Signature::verify: self.verify(pubkey, msg).  self is a
\* Signature, so the method called is Signature::verify.
SignatureVerifyBody ==
    /\ pcall.op = "Signature::verify"
    /\ SignatureCalls("Signature::verify")

\* Signature::fast_aggregate_verify(&self, pubkeys, msg): the call.
SignatureFastAggregateVerify(self, pubkeys, msg, frames) ==
    SignatureEnter("Signature::fast_aggregate_verify", self, pubkeys, msg, frames)

\* The body of Signature::fast_aggregate_verify:
\* self.fast_aggregate_verify(pubkeys, msg), again the method of Signature.
SignatureFastAggregateVerifyBody ==
    /\ pcall.op = "Signature::fast_aggregate_verify"
    /\ SignatureCalls("Signature::fast_aggregate_verify")

Signatures == [point : SignaturePoints]

PublicKeyLists == {<< >>, <<"pk1">>, <<"pk1", "pk2">>}

NextSignature ==
    \/ \E self \in Signatures, other \in Signatures : SignatureAddAssign(self, other)
    \/ \E self \in Signatures : SignatureSerialize(self)
    \/ \E self \in Signatures, pubkey \in PublicKeys, msg \in {"m1", "m2"},
          frames \in BOOLEAN : SignatureVerify(self, pubkey, msg, frames)
    \/ SignatureVerifyBody
    \/ \E self \in Signatures, pubkeys \in PublicKeyLists, msg \in {"m1", "m2"},
          frames \in BOOLEAN : SignatureFastAggregateVerify(self, pubkeys, msg, frames)
    \/ SignatureFastAggregateVerifyBody

SpecSignature == InitBehaviour /\ [][NextSignature]_vars


(***************************************************************************)
(*                              Properties                                 *)
(***************************************************************************)

\* ---- The seen cache and the event queue of the Behaviour ----

\* C1: while a gossip message stays in the seen cache, at most one
\* GossipMessage event is enqueued for it, whichever peers inject it under
\* whichever message ids: an injection of a message that is still cached
\* enqueues nothing.
GossipDeliveredAtMostOnce ==
    \A k \in LruKeys(seen_gossip_messages) :
        k \in DOMAIN deliveries /\ deliveries[k] <= 1

\* A message delivered once and then injected again, by another peer under
\* another id, while the cache still held it.
DuplicateDropped ==
    /\ bcall.op = "gossipsub_message"
    /\ bcall.source = "p2" /\ bcall.id = "id2"
    /\ bcall.gs_msg = GossipsubMessage(1, <<"beacon_block">>)
    /\ put_log[1] = bcall.gs_msg /\ Len(put_log) > 1
    /\ evicted_log = << >>
    /\ deliveries[bcall.gs_msg] = 1

\* C2: the seen cache never holds more than 256 entries.
SeenCacheWithinCapacity ==
    /\ Len(seen_gossip_messages) <= SEEN_CACHE_CAPACITY
    /\ Cardinality(LruKeys(seen_gossip_messages)) = Len(seen_gossip_messages)

\* The cache full, after more insertions than it has room for.
SeenCacheFull ==
    /\ Len(seen_gossip_messages) = SEEN_CACHE_CAPACITY
    /\ absent_puts > SEEN_CACHE_CAPACITY

\* The key v is the least recently used of the keys: every other one was put
\* after the last put of v in the log of puts.
LeastRecentlyUsed(log, keys, v) ==
    LET last == CHOOSE i \in 1..Len(log) :
                    log[i] = v /\ \A j \in (i + 1)..Len(log) : log[j] # v
    IN  \A k \in keys \ {v} : \E j \in (last + 1)..Len(log) : log[j] = k

\* C3: from the empty cache, the first 256 insertions of messages that are
\* not cached evict nothing and every later one evicts exactly one entry,
\* the least recently used one; the injection of a message that is cached
\* evicts nothing.
LruEvictsFrom257th ==
    [][/\ Len(evicted_log') = IF absent_puts' <= SEEN_CACHE_CAPACITY THEN 0
                              ELSE absent_puts' - SEEN_CACHE_CAPACITY
       /\ evicted_log' # evicted_log =>
            LET gone == evicted_log'[Len(evicted_log')]
                before == LruKeys(seen_gossip_messages)
            IN  /\ Cardinality(gone) = 1
                /\ gone \subseteq before
                /\ bcall'.gs_msg \notin before
                /\ \A v \in gone : LeastRecentlyUsed(put_log, before, v)]_vars

\* The 257th insertion evicted the second message: the first one had been
\* injected again in the meantime.
EvictedLeastRecentlyUsed ==
    /\ absent_puts = SEEN_CACHE_CAPACITY + 1
    /\ evicted_log = <<{GossipsubMessage(2, <<"beacon_block">>)}>>

\* C4: a poll of a non-empty queue removes and returns its oldest event, a
\* poll of the empty queue returns NotReady and changes nothing; so the
\* events polled so far, followed by the events still queued, are the events
\* enqueued so far, in order.
PollsDrainFifo ==
    [][/\ polled_log' \o events' = enqueued_log'
       /\ bcall'.op = "poll" =>
            /\ seen_gossip_messages' = seen_gossip_messages
            /\ enqueued_log' = enqueued_log
            /\ IF events = << >>
               THEN bcall'.result = "NotReady" /\ events' = events
               ELSE /\ bcall'.result = "Ready"
                    /\ bcall'.event = Head(events)
                    /\ events' = Tail(events)]_vars

\* Two different events were enqueued; a poll returned the first and the
\* second is still queued.
PolledOldestFirst ==
    /\ bcall.op = "poll" /\ bcall.result = "Ready"
    /\ Len(enqueued_log) = 2 /\ enqueued_log[1] # enqueued_log[2]
    /\ bcall.event = enqueued_log[1]
    /\ events = <<enqueued_log[2]>>


\* ---- The handshake of the MessageProcessor ----

\* The messages a step appends to the network channel and to the sync
\* channel.
NetSent == SubSeq(network_send', Len(network_send) + 1, Len(network_send'))
SyncSent == SubSeq(sync_send', Len(sync_send) + 1, Len(sync_send'))

OfType(messages, type) == SelectSeq(messages, LAMBDA m : m.type = type)
OfRpc(messages, rpc) ==
    SelectSeq(messages, LAMBDA m : m.event = "Request" /\ m.body.rpc = rpc)

\* A step that handles a Hello, as a request or as a response.
HelloStep == pcall'.op \in {"on_hello_request", "on_hello_response"}

\* What the step sends besides the work of process_hello: the Hello that
\* answers a request.
HelloAnswer ==
    IF pcall'.op = "on_hello_request"
    THEN <<RPCResponseMessage(pcall'.peer, pcall'.request_id,
                              HelloResponse(HelloMessageOf(chain)))>>
    ELSE << >>

\* What process_hello sent in the step.
HandshakeSends ==
    Sends(SubSeq(NetSent, Len(HelloAnswer) + 1, Len(NetSent)), SyncSent)

\* The rows of the handshake table, for the chain c and the Hello of a peer.
ForkDiffers(c, hello) ==
    hello.fork_version # c.head.beacon_state.fork.current_version

FinalizedRootDiffers(c, hello) ==
    /\ hello.finalized_epoch <= c.head.beacon_state.finalized_checkpoint.epoch
    /\ hello.finalized_root # ZeroHash
    /\ c.head.beacon_state.finalized_checkpoint.root # ZeroHash
    /\ RootAtSlot(c, StartSlot(hello.finalized_epoch)) # Some(hello.finalized_root)

PeerBehind(c, hello) ==
    hello.finalized_epoch < c.head.beacon_state.finalized_checkpoint.epoch

TableOutcome(c, hello) ==
    CASE ForkDiffers(c, hello) -> "Goodbye"
      [] ~ForkDiffers(c, hello) /\ FinalizedRootDiffers(c, hello) -> "Goodbye"
      [] ~ForkDiffers(c, hello) /\ ~FinalizedRootDiffers(c, hello)
            /\ PeerBehind(c, hello) -> "Nothing"
      [] OTHER -> "AddPeer"

\* The five fields of a Hello, as sync receives them.
FiveFields(hello) ==
    [fork_version |-> hello.fork_version,
     finalized_root |-> hello.finalized_root,
     finalized_epoch |-> hello.finalized_epoch,
     head_root |-> hello.head_root,
     head_slot |-> hello.head_slot]

\* What a set of messages amounts to as an outcome of the handshake; "Mixed"
\* when it is none of the three.
OutcomeOf(sends, peer_id, hello) ==
    IF sends = Sends(<<RPCRequestMessage(peer_id, 0,
                                         GoodbyeRequest("IrrelevantNetwork"))>>, << >>)
    THEN "Goodbye"
    ELSE IF sends = NoSends THEN "Nothing"
    ELSE IF sends = Sends(<< >>, <<SyncAddPeer(peer_id, FiveFields(hello))>>)
    THEN "AddPeer"
    ELSE "Mixed"

\* C5: the handling of a Hello has the outcome of the first matching row of
\* the handshake table: a Goodbye(IrrelevantNetwork) to the peer when the
\* fork versions differ, or when the peer's finalized epoch is not above the
\* local one, both finalized roots are non-zero and the chain's root at the
\* start slot of the peer's finalized epoch is not the peer's finalized
\* root; else nothing when the peer's finalized epoch is below the local
\* one; else AddPeer(peer, remote).  The outcome is exactly one of the three.
HandshakeFollowsTable ==
    [][HelloStep =>
         /\ network_send' = network_send \o NetSent
         /\ sync_send' = sync_send \o SyncSent
         /\ SubSeq(NetSent, 1, Len(HelloAnswer)) = HelloAnswer
         /\ OutcomeOf(HandshakeSends, pcall'.peer, pcall'.hello)
              = TableOutcome(chain, pcall'.hello)]_vars

\* A Hello that matches the second row and the third: the second decided.
SecondRowBeforeThird ==
    /\ pcall.op = "on_hello_response"
    /\ ~ForkDiffers(chain, pcall.hello)
    /\ FinalizedRootDiffers(chain, pcall.hello)
    /\ PeerBehind(chain, pcall.hello)
    /\ network_send = <<RPCRequestMessage(pcall.peer, 0,
                                          GoodbyeRequest("IrrelevantNetwork"))>>
    /\ sync_send = << >>

\* The chains that process_hello cannot tell from the chain c by their
\* PeerSyncInfo.
SameLocalInfo(c) == {c2 \in Chains : PeerSyncInfoFromChain(c2) = PeerSyncInfoFromChain(c)}

\* C6, as stated: the outcome of the handshake is determined by the local and
\* the remote PeerSyncInfo alone; on any chain with the same local
\* PeerSyncInfo the same Hello has the same outcome, whatever else differs in
\* the chain and the store.
OutcomeDeterminedByInfoAlone ==
    [][HelloStep =>
         \A c2 \in SameLocalInfo(chain) :
             OutcomeOf(ProcessHello(c2, pcall'.peer, pcall'.hello),
                       pcall'.peer, pcall'.hello)
               = OutcomeOf(HandshakeSends, pcall'.peer, pcall'.hello)]_vars

\* C6, amended: the outcome of the handshake is determined by the local
\* PeerSyncInfo, the remote PeerSyncInfo and the chain's root at the start
\* slot of the remote finalized epoch; on any chain that agrees on these the
\* same Hello has the same outcome, whatever else differs in the chain and
\* the store.
OutcomeDeterminedByInfoAndRoot ==
    [][HelloStep =>
         \A c2 \in SameLocalInfo(chain) :
             RootAtSlot(c2, StartSlot(pcall'.hello.finalized_epoch))
               = RootAtSlot(chain, StartSlot(pcall'.hello.finalized_epoch))
             => OutcomeOf(ProcessHello(c2, pcall'.peer, pcall'.hello),
                          pcall'.peer, pcall'.hello)
                  = OutcomeOf(HandshakeSends, pcall'.peer, pcall'.hello)]_vars

\* A peer was added whose head is in the store of the chain, while a chain
\* with the same PeerSyncInfo and the same roots does not hold that block.
SameOutcomeOnOtherStore ==
    /\ pcall.op = "on_hello_request"
    /\ sync_send = <<SyncAddPeer(pcall.peer, FiveFields(pcall.hello))>>
    /\ StoreBlockExists(chain, pcall.hello.head_root)
    /\ \E c2 \in SameLocalInfo(chain) :
          /\ c2.block_roots = chain.block_roots
          /\ ~StoreBlockExists(c2, pcall.hello.head_root)

\* The only Goodbye there is: an IrrelevantNetwork request to the peer.
GoodbyeTo(peer_id) ==
    RPCRequestMessage(peer_id, 0, GoodbyeRequest("IrrelevantNetwork"))

\* C7: the handling of a Hello, request or response, whose fork version is
\* not the local one puts exactly one Goodbye(IrrelevantNetwork) request to
\* that peer on the network channel and nothing on the sync channel.
ForkMismatchSendsGoodbye ==
    [][HelloStep /\ ForkDiffers(chain, pcall'.hello) =>
         /\ network_send' = network_send \o NetSent
         /\ OfRpc(NetSent, "Goodbye") = <<GoodbyeTo(pcall'.peer)>>
         /\ sync_send' = sync_send]_vars

\* A Hello request of another fork was answered and then met with a Goodbye.
ForkMismatchOnRequest ==
    /\ pcall.op = "on_hello_request"
    /\ ForkDiffers(chain, pcall.hello)
    /\ network_send = <<RPCResponseMessage(pcall.peer, pcall.request_id,
                                           HelloResponse(HelloMessageOf(chain))),
                        GoodbyeTo(pcall.peer)>>
    /\ sync_send = << >>

\* The finalized root of the Hello is the chain's root at the start slot of
\* its finalized epoch, or the two are not compared: the peer's finalized
\* epoch is above the local one, or one of the finalized roots is zero.
RootMatchesOrNotCompared(c, hello) ==
    \/ hello.finalized_epoch > c.head.beacon_state.finalized_checkpoint.epoch
    \/ hello.finalized_root = ZeroHash
    \/ c.head.beacon_state.finalized_checkpoint.root = ZeroHash
    \/ RootAtSlot(c, StartSlot(hello.finalized_epoch)) = Some(hello.finalized_root)

\* C8: the handling of a Hello of the local fork version, whose finalized
\* epoch is not below the local one and whose finalized root matches the
\* chain or is not compared, sends exactly one AddPeer(peer, remote) with the
\* five fields of the Hello to sync and no Goodbye, whether the store holds
\* the head of the peer or not.
CompatiblePeerIsAdded ==
    [][/\ HelloStep
       /\ ~ForkDiffers(chain, pcall'.hello)
       /\ ~PeerBehind(chain, pcall'.hello)
       /\ RootMatchesOrNotCompared(chain, pcall'.hello)
       => /\ sync_send' = sync_send \o
                 <<SyncAddPeer(pcall'.peer, FiveFields(pcall'.hello))>>
          /\ network_send' = network_send \o NetSent
          /\ OfRpc(NetSent, "Goodbye") = << >>]_vars

\* A peer ahead of the chain, with a head the store does not hold, was added.
UsefulPeerAdded ==
    /\ pcall.op = "on_hello_response"
    /\ pcall.hello.finalized_epoch > chain.head.beacon_state.finalized_checkpoint.epoch
    /\ pcall.hello.finalized_root = ForeignRoot
    /\ ~StoreBlockExists(chain, pcall.hello.head_root)
    /\ sync_send = <<SyncAddPeer(pcall.peer, FiveFields(pcall.hello))>>
    /\ network_send = << >>

\* C9: the handling of a Hello of the local fork version, whose finalized
\* epoch is below the local one and whose finalized root is the chain's root
\* at the start slot of that epoch, sends no Goodbye and no AddPeer:
\* process_hello leaves both channels as they are.
PeerBehindIsIgnored ==
    [][/\ HelloStep
       /\ ~ForkDiffers(chain, pcall'.hello)
       /\ PeerBehind(chain, pcall'.hello)
       /\ RootAtSlot(chain, StartSlot(pcall'.hello.finalized_epoch))
             = Some(pcall'.hello.finalized_root)
       => /\ sync_send' = sync_send
          /\ network_send' = network_send \o HelloAnswer]_vars

\* A peer behind on the same chain, both finalized roots non-zero, was
\* ignored.
NaivePeerIgnored ==
    /\ pcall.op = "on_hello_response"
    /\ ~ForkDiffers(chain, pcall.hello)
    /\ PeerBehind(chain, pcall.hello)
    /\ pcall.hello.finalized_root # ZeroHash
    /\ RootAtSlot(chain, StartSlot(pcall.hello.finalized_epoch))
          = Some(pcall.hello.finalized_root)
    /\ network_send = << >>
    /\ sync_send = << >>

\* C10: every AddPeer(peer, info) put on the sync channel is put there by the
\* handling of a Hello, request or response, of that peer, whose five fields
\* are info and which matches neither a disconnect row nor the ignore row of
\* the table; no other operation of the processor sends an AddPeer.
AddPeerOnlyAfterHello ==
    [][/\ sync_send' = sync_send \o SyncSent
       /\ \A i \in 1..Len(SyncSent) :
             SyncSent[i].type = "AddPeer" =>
                /\ HelloStep
                /\ SyncSent[i].peer = pcall'.peer
                /\ SyncSent[i].info = FiveFields(pcall'.hello)
                /\ TableOutcome(chain, pcall'.hello) = "AddPeer"]_vars

\* The request of a peer at the finalized epoch of the chain, on the same
\* chain, had it added.
AddPeerAfterHelloRequest ==
    /\ pcall.op = "on_hello_request"
    /\ pcall.peer = "p2"
    /\ pcall.hello.finalized_epoch = chain.head.beacon_state.finalized_checkpoint.epoch
    /\ pcall.hello.finalized_root # ZeroHash
    /\ chain.head.beacon_state.finalized_checkpoint.root # ZeroHash
    /\ OfType(sync_send, "AddPeer") = <<SyncAddPeer("p2", FiveFields(pcall.hello))>>

\* ---- After the handshake ----

\* A message on the network channel that has the network drop the peer: one
\* about the peer that is neither an RPC request nor an RPC response.
DropsPeer(message, peer_id) ==
    message.peer = peer_id /\ message.event \notin {"Request", "Response"}

\* C11: a peer the handshake classifies IrrelevantNetwork is sent a Goodbye
\* and is then dropped: the step that puts the Goodbye to the peer on the
\* network channel puts the disconnection of the peer behind it.
GoodbyeThenDropped ==
    [][\A i \in 1..Len(NetSent) :
          (NetSent[i].event = "Request" /\ NetSent[i].body.rpc = "Goodbye") =>
             \E j \in (i + 1)..Len(NetSent) : DropsPeer(NetSent[j], NetSent[i].peer)]_vars

\* ---- Requests and their responses ----

\* A step that handles a request of a peer.
RequestStep ==
    pcall'.op \in {"on_hello_request", "on_beacon_blocks_request",
                   "on_recent_beacon_blocks_request"}

Responses(messages) == SelectSeq(messages, LAMBDA m : m.event = "Response")

LastResponseBlocks == network_send[Len(network_send)].body.bytes[2]

\* C13: the blocks of the response to a BeaconBlocks request {start_slot,
\* count} have slots in start_slot <= slot < start_slot + count, in strictly
\* ascending order (so no two blocks have the same slot), on every chain,
\* also where a skipped slot has the walk repeat a root.
RangeResponseAscendingInRange ==
    pcall.op = "on_beacon_blocks_request" =>
        LET blocks == LastResponseBlocks
        IN  /\ \A i \in 1..Len(blocks) :
                  /\ pcall.req.start_slot <= blocks[i].slot
                  /\ blocks[i].slot < pcall.req.start_slot + pcall.req.count
            /\ \A i \in 1..(Len(blocks) - 1) : blocks[i].slot < blocks[i + 1].slot

\* A range that holds a skipped slot between two blocks was served: the walk
\* gave the root of the earlier block twice, the response holds it once.
RangeOverSkippedSlot ==
    /\ pcall.op = "on_beacon_blocks_request"
    /\ pcall.req.start_slot = StartSlot(1) /\ pcall.req.count = 3
    /\ chain.block_roots[FirstSkipped] = chain.block_roots[StartSlot(1)]
    /\ chain.block_roots[FirstSkipped + 1] = CanonicalRoot(FirstSkipped + 1)
    /\ Len(LastResponseBlocks) = 2
    /\ LastResponseBlocks[1].slot = StartSlot(1)
    /\ LastResponseBlocks[2].slot = FirstSkipped + 1

\* The roots of the canonical chain: those the block-root walk yields.
WalkedRoots(c) == {c.block_roots[s] : s \in DOMAIN c.block_roots}

RecentResponseFollowsRoots ==
    pcall.op = "on_recent_beacon_blocks_request" =>
        LET held == SelectSeq(pcall.request.block_roots,
                              LAMBDA r : StoreBlockExists(chain, r))
        IN  /\ Len(LastResponseBlocks) = Len(held)
            /\ \A i \in 1..Len(held) : LastResponseBlocks[i] = chain.blocks[held[i]]

\* A root requested twice was answered with its block twice.
RecentBlockTwice ==
    /\ pcall.op = "on_recent_beacon_blocks_request"
    /\ pcall.request.block_roots = <<CanonicalRoot(1), CanonicalRoot(1)>>
    /\ Len(LastResponseBlocks) = 2
    /\ LastResponseBlocks[1] = LastResponseBlocks[2]
    /\ LastResponseBlocks[1].slot = 1

\* ---- Gossip ----

\* C16: on_block_gossip(peer, block) appends exactly one UnknownBlock(peer,
\* block) to the sync channel when the chain answers ParentUnknown; for
\* every other answer (Processed, another outcome, an error) it appends
\* nothing to the sync channel; it never appends to the network channel.
BlockGossipReportsUnknownParent ==
    [][pcall'.op = "on_block_gossip" =>
         /\ network_send' = network_send
         /\ sync_send' = sync_send \o SyncSent
         /\ SyncSent = IF pcall'.outcome = "ParentUnknown"
                       THEN <<[type |-> "UnknownBlock", peer |-> pcall'.peer,
                               block |-> pcall'.block]>>
                       ELSE << >>]_vars

\* A block whose parent the chain does not know was handed to sync.
UnknownParentReported ==
    /\ pcall.op = "on_block_gossip"
    /\ pcall.outcome = "ParentUnknown"
    /\ pcall.block.parent_root = ForeignRoot
    /\ sync_send = <<[type |-> "UnknownBlock", peer |-> pcall.peer,
                      block |-> pcall.block]>>
    /\ network_send = << >>

\* The last call was should_forward_block.
BlockCheck == pcall.op = "should_forward_block"

\* The parent of a block is in the store and a state is at hand for it: the
\* head state when the head's state root is the parent's, else the state the
\* store keeps under the parent's state root.
HasParentState(c, block) ==
    /\ block.parent_root \in DOMAIN c.blocks
    /\ \/ c.head.beacon_state_root = c.blocks[block.parent_root].state_root
       \/ c.blocks[block.parent_root].state_root \in DOMAIN c.states

ParentState(c, block) ==
    IF c.head.beacon_state_root = c.blocks[block.parent_root].state_root
    THEN c.head.beacon_state
    ELSE c.states[c.blocks[block.parent_root].state_root]

\* The signature of a block is the proposer's: the validator the parent's
\* state has at the proposer index signed the block's signed root under the
\* proposer domain of the block's epoch.
SignedByProposer(c, block, proposer_index) ==
    /\ HasParentState(c, block)
    /\ proposer_index # None
    /\ proposer_index[2] + 1 \in DOMAIN ParentState(c, block).validators
    /\ block.signature = Sign(ParentState(c, block).validators[proposer_index[2] + 1],
                              SignedRoot(block), ProposerDomain(block.slot))

\* C17: should_forward_block answers true only for a block whose signature
\* over its signed root verifies against the public key of the proposer found
\* for the block's slot in a state reached through the block's parent_root
\* (the head state when its root is the parent's state root, else the parent's
\* stored state).
ForwardedBlockSignedByProposer ==
    BlockCheck /\ pcall.result
        => SignedByProposer(chain, pcall.block, pcall.outcome.proposer_index)

\* A block on a parent whose state is read from the store is forwarded.
ForwardedOnStoredState ==
    /\ BlockCheck
    /\ pcall.result
    /\ pcall.block.parent_root = CanonicalRoot(0)
    /\ pcall.block.signature.signer = "pk1"

\* No RelativeEpoch relates the slot of the block's parent to the block's.
TooFarFromParent(c, block) ==
    LET parent_epoch == Epoch(c.blocks[block.parent_root].slot)
    IN  Epoch(block.slot) \notin {parent_epoch - 1, parent_epoch, parent_epoch + 1}

\* One of the steps of should_forward_block fails: the parent block is not
\* in the store or the store fails; no state is at hand for the parent; the
\* block is too far from its parent and lies before the state, or a
\* per_slot_processing call on the way to it fails, or the committee cache
\* cannot be built; the proposer index cannot be computed; no validator has
\* that index.
IntermediateFailure(c, block, outcome) ==
    \/ block.parent_root \notin DOMAIN c.blocks
    \/ outcome.block_read = "Err"
    \/ ~HasParentState(c, block)
    \/ /\ c.head.beacon_state_root # c.blocks[block.parent_root].state_root
       /\ outcome.state_read = "Err"
    \/ /\ TooFarFromParent(c, block)
       /\ \/ ParentState(c, block).slot > block.slot
          \/ /\ outcome.slot_error # None
             /\ outcome.slot_error[2] < block.slot - ParentState(c, block).slot
          \/ outcome.committee_cache = "Err"
    \/ outcome.proposer_index = None
    \/ outcome.proposer_index[2] + 1 \notin DOMAIN ParentState(c, block).validators

\* C18: should_forward_block answers false whenever one of its steps fails:
\* parent block missing or store error, no state for the parent, state.slot >
\* block.slot when no RelativeEpoch exists, a per-slot processing error, a
\* committee-cache build failure, a proposer-index error, or a proposer index
\* without validator.
FailureIsNotForwarded ==
    BlockCheck /\ IntermediateFailure(chain, pcall.block, pcall.outcome)
        => pcall.result = FALSE

\* A block its proposer signed is not forwarded: the second
\* per_slot_processing call on the way to its slot failed.
SlotErrorNotForwarded ==
    /\ BlockCheck
    /\ pcall.result = FALSE
    /\ SignedByProposer(chain, pcall.block, pcall.outcome.proposer_index)
    /\ pcall.outcome.block_read = "Ok"
    /\ pcall.outcome.state_read = "Ok"
    /\ pcall.outcome.committee_cache = "Ok"
    /\ pcall.outcome.slot_error = Some(SlotsPerEpoch)

\* The last call was should_forward_attestation.
AttestationCheck == pcall.op = "should_forward_attestation"

\* The signature of an attestation verifies against a state: both
\* conversions succeed and the validator the state has at the attester's
\* index signed the attestation data under the attestation domain.
VerifiesAgainst(state, attestation, indexed, signature_set) ==
    /\ indexed = "Ok"
    /\ signature_set = "Ok"
    /\ attestation.attester + 1 \in DOMAIN state.validators
    /\ attestation.signature = Sign(state.validators[attestation.attester + 1],
                                    AttestationRoot(attestation.data),
                                    AttestationDomain)

VerifiesAgainstHead(c, attestation, outcome) ==
    VerifiesAgainst(c.head.beacon_state, attestation, outcome.head_indexed,
                    outcome.head_signature_set)

\* The block the attestation votes for and the state of that block are both
\* read from the store, and the signature verifies against that state.
VerifiesAgainstStored(c, attestation, outcome) ==
    /\ outcome.block_read = "Ok"
    /\ attestation.data.beacon_block_root \in DOMAIN c.blocks
    /\ outcome.state_read = "Ok"
    /\ c.blocks[attestation.data.beacon_block_root].state_root \in DOMAIN c.states
    /\ VerifiesAgainst(c.states[c.blocks[attestation.data.beacon_block_root].state_root],
                       attestation, outcome.state_indexed,
                       outcome.state_signature_set)

\* C19: should_forward_attestation answers true exactly when the signature
\* verifies against the head state, and then it reads nothing from the
\* store, or when that attempt fails and the block of
\* attestation.data.beacon_block_root and its state are both in the store and
\* the signature verifies against that state; otherwise it answers false.
AttestationForwardedIffVerified ==
    AttestationCheck =>
        /\ pcall.result = (\/ VerifiesAgainstHead(chain, pcall.attestation, pcall.outcome)
                           \/ VerifiesAgainstStored(chain, pcall.attestation, pcall.outcome))
        /\ VerifiesAgainstHead(chain, pcall.attestation, pcall.outcome)
              => pcall.store_reads = 0

\* An attestation that fails against the head state, whose registry
\* differs, is forwarded on the state read from the store.
ForwardedOnSecondAttempt ==
    /\ AttestationCheck
    /\ pcall.result
    /\ pcall.store_reads = 2
    /\ pcall.outcome.head_indexed = "Ok"
    /\ pcall.outcome.head_signature_set = "Ok"
    /\ ~VerifiesAgainstHead(chain, pcall.attestation, pcall.outcome)

\* C20: propagate_message(source, id) leaves the event queue and the seen
\* cache as they were, for every id, also one no message was received
\* under: it enqueues no BehaviourEvent.
PropagateLeavesQueueAndCache ==
    [][bcall'.op = "propagate_message" =>
         /\ events' = events
         /\ enqueued_log' = enqueued_log
         /\ seen_gossip_messages' = seen_gossip_messages]_vars

\* A message was propagated under an id no message was received under, with
\* an event waiting in the queue.
PropagatedUnknownId ==
    /\ bcall.op = "propagate_message"
    /\ events # << >>
    /\ \A i \in 1..Len(enqueued_log) :
          enqueued_log[i].type = "GossipMessage" => enqueued_log[i].id # bcall.id
    /\ put_log = << >>

\* C21: an identify Received event with n listen addresses leaves
\* min(n, 20) of them, the first ones in their order, and changes neither the
\* event queue nor the seen cache.
IdentifyKeepsFirstTwenty ==
    [][bcall'.op = "identify_received" =>
         /\ Len(bcall'.listen_addrs)
               = (IF Len(bcall'.received) < 20 THEN Len(bcall'.received) ELSE 20)
         /\ \A i \in 1..Len(bcall'.listen_addrs) :
               bcall'.listen_addrs[i] = bcall'.received[i]
         /\ events' = events
         /\ enqueued_log' = enqueued_log
         /\ seen_gossip_messages' = seen_gossip_messages]_vars

\* 25 addresses were received and cut, with an event waiting in the queue.
IdentifyTruncated ==
    /\ bcall.op = "identify_received"
    /\ Len(bcall.received) = 25
    /\ Len(bcall.listen_addrs) = 20
    /\ events # << >>

\* C22: for every start_slot and count, the upper bound start_slot + count
\* of a BeaconBlocks request is computed without overflow: the handler does
\* not panic, and the response holds every stored block of the walk at a
\* slot from start_slot on that is below the true sum, however large count.
RangeUpperBoundNeverOverflows ==
    pcall.op = "on_beacon_blocks_request" =>
        /\ ~pcall.panicked
        /\ \A r \in WalkedRoots(chain) \cap DOMAIN chain.blocks :
              (/\ pcall.req.start_slot <= chain.blocks[r].slot
               /\ chain.blocks[r].slot < pcall.req.start_slot + pcall.req.count)
              => \E i \in 1..Len(LastResponseBlocks) :
                    LastResponseBlocks[i] = chain.blocks[r]

\* C23: on_hello_request puts the Hello response built from the local head
\* on the network channel first, before anything the classification sends,
\* so before a Goodbye to the peer, and also for a peer then found
\* irrelevant; on_hello_response puts no Hello on the channel.
HelloAnsweredBeforeClassified ==
    [][/\ (pcall'.op = "on_hello_request" =>
              /\ network_send' = network_send \o NetSent
              /\ NetSent # << >>
              /\ NetSent[1] = RPCResponseMessage(pcall'.peer, pcall'.request_id,
                                                 HelloResponse(HelloMessageOf(chain)))
              /\ \A i \in 2..Len(NetSent) : NetSent[i].body.rpc # "Hello")
       /\ (pcall'.op = "on_hello_response" =>
              \A i \in 1..Len(NetSent) : NetSent[i].body.rpc # "Hello")]_vars

\* A Hello request of a peer finalized on another chain was answered with
\* the local Hello and then with a Goodbye.
OtherChainAnsweredThenGoodbye ==
    /\ pcall.op = "on_hello_request"
    /\ ~ForkDiffers(chain, pcall.hello)
    /\ FinalizedRootDiffers(chain, pcall.hello)
    /\ Len(network_send) = 2
    /\ network_send[1].body = HelloResponse(HelloMessageOf(chain))
    /\ network_send[2] = GoodbyeTo(pcall.peer)

\* C24: a try-send that fails, because the receiver of the channel is gone,
\* drops that message and nothing else: the handler completes, the channel
\* of the failed send is left as it was (no retry), the other channel gets
\* every message the handler has for it, and this holds for every call,
\* also one that follows a call whose send failed.
FailedSendDropsOnlyItsMessage ==
    [][calls' = calls + 1 =>
         /\ network_send' = (IF network_rx_alive THEN network_send \o NetSent
                             ELSE network_send)
         /\ sync_send' = (IF sync_rx_alive THEN sync_send \o SyncSent ELSE sync_send)
         /\ (pcall'.op = "on_hello_request" /\ network_rx_alive =>
                NetSent = HelloAnswer \o
                          (IF TableOutcome(chain, pcall'.hello) = "Goodbye"
                           THEN <<GoodbyeTo(pcall'.peer)>> ELSE << >>))
         /\ (pcall'.op = "on_hello_request" /\ sync_rx_alive =>
                SyncSent = (IF TableOutcome(chain, pcall'.hello) = "AddPeer"
                            THEN <<SyncAddPeer(pcall'.peer, FiveFields(pcall'.hello))>>
                            ELSE << >>))
         /\ (pcall'.op = "on_connect" /\ network_rx_alive =>
                NetSent = <<RPCRequestMessage(pcall'.peer, 0,
                                              HelloRequest(HelloMessageOf(chain)))>>)
         /\ (pcall'.op = "on_block_gossip" /\ sync_rx_alive =>
                SyncSent = <<SyncUnknownBlock(pcall'.peer, pcall'.block)>>)]_vars

\* Two calls were made with the network receiver gone: the sends of both on
\* the network channel failed, and the second call, a Hello request, still
\* handed the peer to sync.
SyncServedAfterFailedSends ==
    /\ calls = 2
    /\ ~network_rx_alive
    /\ sync_rx_alive
    /\ network_send = << >>
    /\ pcall.op = "on_hello_request"
    /\ sync_send = <<SyncAddPeer(pcall.peer, FiveFields(pcall.hello))>>

\* The events of the dialled and disconnected peers.
PeerEvents ==
    {[type |-> t, peer |-> p] : t \in {"PeerDialed", "PeerDisconnected"}, p \in Peers}

Waiting(ev) == \E i \in 1..Len(events) : events[i] = ev

Returned(ev) == bcall.op = "poll" /\ bcall.result = "Ready" /\ bcall.event = ev

\* C25: while the host keeps polling, every event in the queue is
\* eventually returned by a poll, also when events keep being injected
\* behind it.
EnqueuedEventuallyPolled ==
    \A ev \in PeerEvents : Waiting(ev) ~> Returned(ev)

\* A poll returned an event while a later one waits behind it.
PolledWhileMoreWait ==
    /\ bcall.op = "poll"
    /\ bcall.result = "Ready"
    /\ events # << >>
    /\ polled_log = <<bcall.event>>

\* C26: with equal fork versions, the peer's finalized epoch not above the
\* local one and both finalized roots non-zero, the handling of a Hello sends
\* a Goodbye only if the chain has a block root at the start slot of the
\* peer's finalized epoch and that root is not the peer's finalized root; a
\* chain without a root at that slot does not make the peer irrelevant.
GoodbyeOnlyForKnownOtherRoot ==
    [][/\ HelloStep
       /\ ~ForkDiffers(chain, pcall'.hello)
       /\ pcall'.hello.finalized_epoch <= chain.head.beacon_state.finalized_checkpoint.epoch
       /\ pcall'.hello.finalized_root # ZeroHash
       /\ chain.head.beacon_state.finalized_checkpoint.root # ZeroHash
       /\ OfRpc(NetSent, "Goodbye") # << >>
       => /\ RootAtSlot(chain, StartSlot(pcall'.hello.finalized_epoch)) # None
          /\ RootAtSlot(chain, StartSlot(pcall'.hello.finalized_epoch))
                # Some(pcall'.hello.finalized_root)]_vars

\* The puts of a message, and the distinct other messages put after the last
\* of them.
PutsOf(m) == {i \in 1..Len(put_log) : put_log[i] = m}

PutSinceLast(m) ==
    LET last == CHOOSE j \in PutsOf(m) : \A i \in PutsOf(m) : i <= j
    IN  {put_log[i] : i \in (last + 1)..Len(put_log)}

DeliveriesOf(m) ==
    Cardinality({i \in 1..Len(enqueued_log) :
                    /\ enqueued_log[i].type = "GossipMessage"
                    /\ enqueued_log[i].message.payload = m.data})

\* C27: a duplicate of a cached message makes it the most recently used
\* entry and enqueues nothing; after the last put of a message, first or
\* duplicate, 255 further distinct messages leave it in the cache; a message
\* that was never evicted was delivered at most once.
DuplicateRefreshesEntry ==
    /\ (bcall.op = "gossipsub_message" => seen_gossip_messages[1] = bcall.gs_msg)
    /\ (PutsOf(RedeliveredMessage) # {}
        /\ Cardinality(PutSinceLast(RedeliveredMessage)) <= SEEN_CACHE_CAPACITY - 1
           => LruContains(seen_gossip_messages, RedeliveredMessage))
    /\ ((\A i \in 1..Len(evicted_log) : RedeliveredMessage \notin evicted_log[i])
           => DeliveriesOf(RedeliveredMessage) <= 1)

\* The message was delivered again twice, 255 distinct messages apart, and
\* is still in the full cache, delivered once.
RedeliveredTwiceStillCached ==
    /\ Cardinality({i \in PutsOf(RedeliveredMessage) : i > 1}) = 2
    /\ Cardinality(PutSinceLast(RedeliveredMessage)) = 0
    /\ Len(seen_gossip_messages) = SEEN_CACHE_CAPACITY
    /\ seen_gossip_messages[1] = RedeliveredMessage
    /\ DeliveriesOf(RedeliveredMessage) = 1

\* C28: on the fast path of should_forward_block the head state that the
\* block is verified against has the state root of the parent block, also
\* when the head is replaced between the comparison of the roots and the
\* read of the state.
FastPathStateIsParentState ==
    pcall.op = "should_forward_block" /\ pcall.at = "returned" /\ pcall.fast_path
        => pcall.state_root = pcall.parent_block.state_root

\* C29: should_forward_block answers false for every block whose slot is
\* below the slot of the state found through its parent, whether or not a
\* RelativeEpoch relates the parent's slot to the block's.
BlockBeforeParentNotForwarded ==
    /\ BlockCheck
    /\ pcall.outcome.block_read = "Ok"
    /\ pcall.outcome.state_read = "Ok"
    /\ HasParentState(chain, pcall.block)
    /\ pcall.block.slot < ParentState(chain, pcall.block).slot
    => pcall.result = FALSE

\* C30: a call of Signature::verify or Signature::fast_aggregate_verify
\* returns, and returns what the wrapped point's method of the same name
\* answers: its only callee is the point, as in add_assign and serialize, so
\* it never enters itself again and never overflows the stack.
SignatureVerifyDelegatesToPoint ==
    pcall.op \in {"Signature::verify", "Signature::fast_aggregate_verify"}
        => /\ pcall.at # "stack_overflow"
           /\ ~pcall.reentered
           /\ \A i \in 2..Len(pcall.stack) : pcall.stack[i] # pcall.op

=============================================================================
